---- MODULE Spec2Model ----
(***************************************************************************)
(* Model of src/tools/blockStructureRenderer/hardcodes.ts: the face        *)
(* visibility resolver (hardCodedSkipRendering), the shading resolver      *)
(* (getShade) and the cuboid model builder (boxModel).                     *)
(*                                                                         *)
(* The three are pure functions.  A behaviour is one call: Init draws the  *)
(* function to call and its arguments, the function's action computes the  *)
(* result exactly as the code does and stores it (specification Spec).     *)
(*                                                                         *)
(* The special block renderers of the registry hardCodedRenderers emit     *)
(* into a scene; a behaviour of SpecRender is one registry lookup or one   *)
(* call of one renderer, or a sequence of resolveSpecialTextures calls on   *)
(* one material picker.                                                    *)
(*                                                                         *)
(* scripts/updateGadgets.ts deploys the built files to the wikis of        *)
(* scripts/deployConfig.ts; a behaviour of SpecDeploy is one run of the     *)
(* script, a step being what runs between two awaits.                      *)
(***************************************************************************)
EXTENDS Integers, Sequences, FiniteSets, TLC

VARIABLES
  pc,            \* "shade" | "skip" | "box": the call about to run; "...Done" once it returned
  direction,     \* getShade / hardCodedSkipRendering argument
  shade,         \* getShade / boxModel argument
  thisBlock,     \* hardCodedSkipRendering argument (a BlockState)
  otherBlock,    \* hardCodedSkipRendering argument (a BlockState)
  boxArgs,       \* boxModel arguments other than shade
  result,        \* the value returned by the call, NoResult before it returns
  blockState,    \* the BlockState handed to a registry lookup or to a renderer
  pos,           \* <<x, y, z>> handed to a renderer
  scene,         \* the scene: the renderModelNoCullsWithMS calls made into it, in order
  warnings,      \* the console.warn calls made, in order
  atlasMapping,  \* materialPicker.atlasMapping: texture id -> static rectangle or animated sprite
  animatedTextureManager,  \* materialPicker.animatedTextureManager: the sprites it has placed
  putCalls,      \* the putNewTexture calls of the latest resolveSpecialTextures call, in order
  renderType,    \* resolveSpecialTextures argument
  resolveCalls,  \* the number of resolveSpecialTextures calls made
  manifest,      \* updateGadgets.ts: filesProd and filesDev, the names read from dist/manifest.json
  bots,          \* updateGadgets.ts: per target, where its update call and its file callbacks are
  saved          \* the <<target, title>> pairs bot.save has written

vars == <<pc, direction, shade, thisBlock, otherBlock, boxArgs, result,
          blockState, pos, scene, warnings,
          atlasMapping, animatedTextureManager, putCalls, renderType, resolveCalls,
          manifest, bots, saved>>

deployVars == <<manifest, bots, saved>>

\* the deploy script does not run
DeployIdle ==
  /\ manifest = [prod |-> <<>>, dev |-> <<>>]
  /\ bots = <<>>
  /\ saved = {}

renderVars == <<blockState, pos, scene, warnings,
                atlasMapping, animatedTextureManager, putCalls, renderType, resolveCalls>>

NoResult == "none"

(***************************************************************************)
(* math.ts : Direction and its helpers.  Direction is a string enum whose  *)
(* values are the lower-case block property names, which is what lets      *)
(* hardCodedSkipRendering index blockProperties by a Direction.            *)
(***************************************************************************)
DOWN == "down"
UP == "up"
NORTH == "north"
SOUTH == "south"
WEST == "west"
EAST == "east"

Direction == {DOWN, UP, NORTH, SOUTH, WEST, EAST}

isHorizontalDirection(d) == d \in {NORTH, SOUTH, WEST, EAST}

isVerticalDirection(d) == d \in {DOWN, UP}

oppositeDirection(d) ==
  CASE d = DOWN -> UP
    [] d = UP -> DOWN
    [] d = NORTH -> SOUTH
    [] d = SOUTH -> NORTH
    [] d = WEST -> EAST
    [] d = EAST -> WEST

(***************************************************************************)
(* Block names are strings; a RegExp of the form /.*suffix$/ tested with   *)
(* RegExp.test matches exactly the names that end in the suffix.           *)
(***************************************************************************)
EndsWith(name, suffix) ==
  /\ Len(name) >= Len(suffix)
  /\ SubSeq(name, Len(name) - Len(suffix) + 1, Len(name)) = suffix

\* A name test is either an exact string or a RegExp /.*suffix$/.
Exact(s) == [kind |-> "string", text |-> s]
Suffix(s) == [kind |-> "regexp", text |-> s]

MatchesTest(name, nameTest) ==
  IF nameTest.kind = "regexp" THEN EndsWith(name, nameTest.text)
  ELSE nameTest.text = name

\* every test compared as a string
checkNameInSetExact(name, nameSet) ==
  \E i \in 1..Len(nameSet) : nameSet[i].text = name

checkNameInSet(name, nameSet) ==
  \E i \in 1..Len(nameSet) : MatchesTest(name, nameSet[i])

halfTransparentBlocks ==
  << Exact("frosted_ice"),
     Exact("ice"),
     Exact("honey_block"),
     Exact("slime_block"),
     Suffix("copper_grate"),
     Exact("glass"),
     Suffix("stained_glass"),
     Exact("tinted_glass") >>

leavesBlocks == Suffix("_leaves")

(***************************************************************************)
(* BlockState: blockName and blockProperties.  blockProperties is a map    *)
(* from property names to strings; reading an absent key gives undefined.  *)
(***************************************************************************)
Undefined == "undefined"

GetProperty(props, key) == IF key \in DOMAIN props THEN props[key] ELSE Undefined

\* the bars rule reads the same key on both sides
hardCodedSkipRenderingSameKey(thisB, otherB, d) ==
  IF thisB.blockName = "powder_snow" /\ otherB.blockName = "powder_snow" THEN TRUE
  ELSE IF /\ thisB.blockName = "iron_bars"
          /\ otherB.blockName = "iron_bars"
          /\ isHorizontalDirection(d)
          /\ GetProperty(thisB.blockProperties, d) = "true"
          /\ GetProperty(otherB.blockProperties, d) = "true"
       THEN TRUE
  ELSE IF /\ thisB.blockName = "mangrove_roots"
          /\ otherB.blockName = "mangrove_roots"
          /\ isVerticalDirection(d)
       THEN TRUE
  ELSE /\ checkNameInSet(thisB.blockName, halfTransparentBlocks)
       /\ thisB.blockName = otherB.blockName

\* the roots rule without its direction test
hardCodedSkipRenderingAnyDirection(thisB, otherB, d) ==
  IF thisB.blockName = "powder_snow" /\ otherB.blockName = "powder_snow" THEN TRUE
  ELSE IF /\ thisB.blockName = "iron_bars"
          /\ otherB.blockName = "iron_bars"
          /\ isHorizontalDirection(d)
          /\ GetProperty(thisB.blockProperties, d) = "true"
          /\ GetProperty(otherB.blockProperties, oppositeDirection(d)) = "true"
       THEN TRUE
  ELSE IF /\ thisB.blockName = "mangrove_roots"
          /\ otherB.blockName = "mangrove_roots"
       THEN TRUE
  ELSE /\ checkNameInSet(thisB.blockName, halfTransparentBlocks)
       /\ thisB.blockName = otherB.blockName

\* the leaves pattern added to the last rule
hardCodedSkipRenderingWithLeaves(thisB, otherB, d) ==
  IF thisB.blockName = "powder_snow" /\ otherB.blockName = "powder_snow" THEN TRUE
  ELSE IF /\ thisB.blockName = "iron_bars"
          /\ otherB.blockName = "iron_bars"
          /\ isHorizontalDirection(d)
          /\ GetProperty(thisB.blockProperties, d) = "true"
          /\ GetProperty(otherB.blockProperties, oppositeDirection(d)) = "true"
       THEN TRUE
  ELSE IF /\ thisB.blockName = "mangrove_roots"
          /\ otherB.blockName = "mangrove_roots"
          /\ isVerticalDirection(d)
       THEN TRUE
  ELSE /\ \/ checkNameInSet(thisB.blockName, halfTransparentBlocks)
          \/ MatchesTest(thisB.blockName, leavesBlocks)
       /\ thisB.blockName = otherB.blockName

\* the last rule without the comparison of the two names
hardCodedSkipRenderingOneName(thisB, otherB, d) ==
  IF thisB.blockName = "powder_snow" /\ otherB.blockName = "powder_snow" THEN TRUE
  ELSE IF /\ thisB.blockName = "iron_bars"
          /\ otherB.blockName = "iron_bars"
          /\ isHorizontalDirection(d)
          /\ GetProperty(thisB.blockProperties, d) = "true"
          /\ GetProperty(otherB.blockProperties, oppositeDirection(d)) = "true"
       THEN TRUE
  ELSE IF /\ thisB.blockName = "mangrove_roots"
          /\ otherB.blockName = "mangrove_roots"
          /\ isVerticalDirection(d)
       THEN TRUE
  ELSE checkNameInSet(thisB.blockName, halfTransparentBlocks)

\* the bars rule reads only this block's property
hardCodedSkipRenderingThisSide(thisB, otherB, d) ==
  IF thisB.blockName = "powder_snow" /\ otherB.blockName = "powder_snow" THEN TRUE
  ELSE IF /\ thisB.blockName = "iron_bars"
          /\ otherB.blockName = "iron_bars"
          /\ isHorizontalDirection(d)
          /\ GetProperty(thisB.blockProperties, d) = "true"
       THEN TRUE
  ELSE IF /\ thisB.blockName = "mangrove_roots"
          /\ otherB.blockName = "mangrove_roots"
          /\ isVerticalDirection(d)
       THEN TRUE
  ELSE /\ checkNameInSet(thisB.blockName, halfTransparentBlocks)
       /\ thisB.blockName = otherB.blockName

hardCodedSkipRendering(thisB, otherB, d) ==
  IF thisB.blockName = "powder_snow" /\ otherB.blockName = "powder_snow" THEN TRUE
  ELSE IF /\ thisB.blockName = "iron_bars"
          /\ otherB.blockName = "iron_bars"
          /\ isHorizontalDirection(d)
          /\ GetProperty(thisB.blockProperties, d) = "true"
          /\ GetProperty(otherB.blockProperties, oppositeDirection(d)) = "true"
       THEN TRUE
  ELSE IF /\ thisB.blockName = "mangrove_roots"
          /\ otherB.blockName = "mangrove_roots"
          /\ isVerticalDirection(d)
       THEN TRUE
  ELSE /\ checkNameInSet(thisB.blockName, halfTransparentBlocks)
       /\ thisB.blockName = otherB.blockName

(***************************************************************************)
(* getShade.  Light multipliers are decimal fractions with one digit;      *)
(* they are kept exact as a number of tenths.                              *)
(***************************************************************************)
Tenths(n) == [num |-> n, den |-> 10]

constantAmbientLight == FALSE

\* the shade flag ignored
getShadeAlways(d, sh) ==
  CASE d = DOWN -> IF constantAmbientLight THEN Tenths(9) ELSE Tenths(5)
    [] d = UP -> IF constantAmbientLight THEN Tenths(9) ELSE Tenths(10)
    [] d \in {NORTH, SOUTH} -> Tenths(8)
    [] d \in {WEST, EAST} -> Tenths(6)

getShade(d, sh) ==
  IF ~sh THEN (IF constantAmbientLight THEN Tenths(9) ELSE Tenths(10))
  ELSE CASE d = DOWN -> IF constantAmbientLight THEN Tenths(9) ELSE Tenths(5)
         [] d = UP -> IF constantAmbientLight THEN Tenths(9) ELSE Tenths(10)
         [] d \in {NORTH, SOUTH} -> Tenths(8)
         [] d \in {WEST, EAST} -> Tenths(6)

(***************************************************************************)
(* boxModel.  Coordinates are numbers of one fixed unit, so the sums are   *)
(* exact.  A UV rectangle is <<u0, v0, u1, v1>>.                           *)
(***************************************************************************)
Includes(seq, x) == \E i \in 1..Len(seq) : seq[i] = x

\* the uv of each face in the mirror branch
mirrorUV(d, width, height, depth, texOffX, texOffY) ==
  CASE d = DOWN ->
         <<texOffX + depth + width, texOffY, texOffX + depth, texOffY + depth>>
    [] d = UP ->
         <<texOffX + depth + width, texOffY,
           texOffX + depth + width + width, texOffY + depth>>
    [] d = WEST ->
         <<texOffX + depth, texOffY + depth + height, texOffX, texOffY + depth>>
    [] d = NORTH ->
         <<texOffX + depth, texOffY + depth + height,
           texOffX + depth + width, texOffY + depth>>
    [] d = EAST ->
         <<texOffX + depth + width + depth, texOffY + depth + height,
           texOffX + depth + width, texOffY + depth>>
    [] d = SOUTH ->
         <<texOffX + depth + width + depth, texOffY + depth + height,
           texOffX + depth + width + depth + width, texOffY + depth>>

\* UP given the rectangle of DOWN
plainUVUpOnDown(d, width, height, depth, texOffX, texOffY) ==
  CASE d = DOWN ->
         <<texOffX + depth, texOffY, texOffX + depth + width, texOffY + depth>>
    [] d = UP ->
         <<texOffX + depth + width, texOffY, texOffX + depth, texOffY + depth>>
    [] d = WEST ->
         <<texOffX + depth, texOffY + depth + height, texOffX, texOffY + depth>>
    [] d = NORTH ->
         <<texOffX + depth + width, texOffY + depth + height,
           texOffX + depth, texOffY + depth>>
    [] d = EAST ->
         <<texOffX + depth + width + depth, texOffY + depth + height,
           texOffX + depth + width, texOffY + depth>>
    [] d = SOUTH ->
         <<texOffX + depth + width + depth + width, texOffY + depth + height,
           texOffX + depth + width + depth, texOffY + depth>>

\* the SOUTH face ending where the EAST face ends
plainUVShortSouth(d, width, height, depth, texOffX, texOffY) ==
  CASE d = DOWN ->
         <<texOffX + depth, texOffY, texOffX + depth + width, texOffY + depth>>
    [] d = UP ->
         <<texOffX + depth + width + width, texOffY,
           texOffX + depth + width, texOffY + depth>>
    [] d = WEST ->
         <<texOffX + depth, texOffY + depth + height, texOffX, texOffY + depth>>
    [] d = NORTH ->
         <<texOffX + depth + width, texOffY + depth + height,
           texOffX + depth, texOffY + depth>>
    [] d = EAST ->
         <<texOffX + depth + width + depth, texOffY + depth + height,
           texOffX + depth + width, texOffY + depth>>
    [] d = SOUTH ->
         <<texOffX + depth + width + depth + width, texOffY + depth + height,
           texOffX + depth + width, texOffY + depth>>

\* the uv of each face in the else (unmirrored) branch
plainUV(d, width, height, depth, texOffX, texOffY) ==
  CASE d = DOWN ->
         <<texOffX + depth, texOffY, texOffX + depth + width, texOffY + depth>>
    [] d = UP ->
         <<texOffX + depth + width + width, texOffY,
           texOffX + depth + width, texOffY + depth>>
    [] d = WEST ->
         <<texOffX + depth, texOffY + depth + height, texOffX, texOffY + depth>>
    [] d = NORTH ->
         <<texOffX + depth + width, texOffY + depth + height,
           texOffX + depth, texOffY + depth>>
    [] d = EAST ->
         <<texOffX + depth + width + depth, texOffY + depth + height,
           texOffX + depth + width, texOffY + depth>>
    [] d = SOUTH ->
         <<texOffX + depth + width + depth + width, texOffY + depth + height,
           texOffX + depth + width + depth, texOffY + depth>>

\* one ModelFace; only the UP face carries a rotation
ModelFace(d, texture, uv) ==
  IF d = UP THEN [texture |-> texture, uv |-> uv, rotation |-> 180]
  ELSE [texture |-> texture, uv |-> uv]

\* a face for every direction, visible or not
directionFacesAll(texture, size, texOff, visibleFaces, mirror) ==
  [d \in Direction |->
     ModelFace(d, texture,
       IF mirror THEN mirrorUV(d, size[1], size[2], size[3], texOff[1], texOff[2])
       ELSE plainUV(d, size[1], size[2], size[3], texOff[1], texOff[2]))]

\* the directionFaces record boxModel fills in: one entry per direction
\* that visibleFaces includes
directionFaces(texture, size, texOff, visibleFaces, mirror) ==
  [d \in {f \in Direction : Includes(visibleFaces, f)} |->
     ModelFace(d, texture,
       IF mirror THEN mirrorUV(d, size[1], size[2], size[3], texOff[1], texOff[2])
       ELSE plainUV(d, size[1], size[2], size[3], texOff[1], texOff[2]))]

\* the pose offset added to from only
boxModelPoseOnFrom(texture, from, size, texOff, poseOff, rotation, visibleFaces, mirror, sh) ==
  [ elements |->
      << [ from |-> <<from[1] + poseOff[1], from[2] + poseOff[2], from[3] + poseOff[3]>>,
           to |-> <<from[1] + size[1], from[2] + size[2], from[3] + size[3]>>,
           shade |-> sh,
           faces |-> directionFaces(texture, size, texOff, visibleFaces, mirror) ] >>,
    rotation |-> rotation,
    uvlock |-> FALSE ]

\* boxModel returns bakeModel(materialPicker, {elements: [...]}, rotation, false);
\* bakeModel is outside this file, the value kept is what is handed to it.
boxModel(texture, from, size, texOff, poseOff, rotation, visibleFaces, mirror, sh) ==
  [ elements |->
      << [ from |-> <<from[1] + poseOff[1], from[2] + poseOff[2], from[3] + poseOff[3]>>,
           to |-> <<from[1] + size[1] + poseOff[1],
                    from[2] + size[2] + poseOff[2],
                    from[3] + size[3] + poseOff[3]>>,
           shade |-> sh,
           faces |-> directionFaces(texture, size, texOff, visibleFaces, mirror) ] >>,
    rotation |-> rotation,
    uvlock |-> FALSE ]

(***************************************************************************)
(* Every call of boxModel in hardcodes.ts, with the arguments it passes.   *)
(* Numbers are written as in the source when they are all integers         *)
(* (per = 1); a call with decimal fractions (0.005, 0.99, 1.5) is written  *)
(* in units of 1/per.  rotation and texture are run-time values, given by  *)
(* the caller.                                                             *)
(***************************************************************************)
\* the default of boxModel's visibleFaces parameter
ALL_FACES == <<DOWN, UP, WEST, NORTH, EAST, SOUTH>>

boxModelCalls ==
  <<
     [ site |-> "renderChest.single.modelBottom", per |-> 1,
       from |-> <<1, 0, 1>>, size |-> <<14, 10, 14>>, texOff |-> <<0, 19>>,
       poseOff |-> <<0, 0, 0>>, visibleFaces |-> ALL_FACES, mirror |-> FALSE ],
     [ site |-> "renderChest.single.modelLid", per |-> 1,
       from |-> <<1, 0, 0>>, size |-> <<14, 5, 14>>, texOff |-> <<0, 0>>,
       poseOff |-> <<0, 9, 1>>, visibleFaces |-> ALL_FACES, mirror |-> FALSE ],
     [ site |-> "renderChest.single.modelLock", per |-> 1,
       from |-> <<7, -2, 14>>, size |-> <<2, 4, 1>>, texOff |-> <<0, 0>>,
       poseOff |-> <<0, 9, 1>>, visibleFaces |-> ALL_FACES, mirror |-> FALSE ],
     [ site |-> "renderChest.left.modelBottom", per |-> 1,
       from |-> <<0, 0, 1>>, size |-> <<15, 10, 14>>, texOff |-> <<0, 19>>,
       poseOff |-> <<0, 0, 0>>, visibleFaces |-> ALL_FACES, mirror |-> FALSE ],
     [ site |-> "renderChest.left.modelLid", per |-> 1,
       from |-> <<0, 0, 0>>, size |-> <<15, 5, 14>>, texOff |-> <<0, 0>>,
       poseOff |-> <<0, 9, 1>>, visibleFaces |-> ALL_FACES, mirror |-> FALSE ],
     [ site |-> "renderChest.left.modelLock", per |-> 1,
       from |-> <<0, -2, 14>>, size |-> <<1, 4, 1>>, texOff |-> <<0, 0>>,
       poseOff |-> <<0, 9, 1>>, visibleFaces |-> ALL_FACES, mirror |-> FALSE ],
     [ site |-> "renderChest.right.modelBottom", per |-> 1,
       from |-> <<1, 0, 1>>, size |-> <<15, 10, 14>>, texOff |-> <<0, 19>>,
       poseOff |-> <<0, 0, 0>>, visibleFaces |-> ALL_FACES, mirror |-> FALSE ],
     [ site |-> "renderChest.right.modelLid", per |-> 1,
       from |-> <<1, 0, 0>>, size |-> <<15, 5, 14>>, texOff |-> <<0, 0>>,
       poseOff |-> <<0, 9, 1>>, visibleFaces |-> ALL_FACES, mirror |-> FALSE ],
     [ site |-> "renderChest.right.modelLock", per |-> 1,
       from |-> <<15, -2, 14>>, size |-> <<1, 4, 1>>, texOff |-> <<0, 0>>,
       poseOff |-> <<0, 9, 1>>, visibleFaces |-> ALL_FACES, mirror |-> FALSE ],
     [ site |-> "renderShulkerBox.modelLid", per |-> 1,
       from |-> <<-8, -16, -8>>, size |-> <<16, 12, 16>>, texOff |-> <<0, 0>>,
       poseOff |-> <<0, 24, 0>>, visibleFaces |-> ALL_FACES, mirror |-> FALSE ],
     [ site |-> "renderShulkerBox.modelBase", per |-> 1,
       from |-> <<-8, -8, -8>>, size |-> <<16, 8, 16>>, texOff |-> <<0, 28>>,
       poseOff |-> <<0, 24, 0>>, visibleFaces |-> ALL_FACES, mirror |-> FALSE ],
     [ site |-> "renderBook.modelLeftLid", per |-> 200,
       from |-> <<-1200, -1000, -1>>, size |-> <<1200, 2000, 1>>, texOff |-> <<0, 0>>,
       poseOff |-> <<0, 0, 0>>, visibleFaces |-> ALL_FACES, mirror |-> FALSE ],
     [ site |-> "renderBook.modelRightLid", per |-> 200,
       from |-> <<0, -1000, -1>>, size |-> <<1200, 2000, 1>>, texOff |-> <<3200, 0>>,
       poseOff |-> <<0, 0, 0>>, visibleFaces |-> ALL_FACES, mirror |-> FALSE ],
     [ site |-> "renderBook.modelSeam", per |-> 200,
       from |-> <<-200, -1000, 0>>, size |-> <<400, 2000, 1>>, texOff |-> <<2400, 0>>,
       poseOff |-> <<0, 0, 0>>, visibleFaces |-> ALL_FACES, mirror |-> FALSE ],
     [ site |-> "renderBook.modelLeftPages", per |-> 100,
       from |-> <<0, -400, -99>>, size |-> <<500, 800, 100>>, texOff |-> <<0, 1000>>,
       poseOff |-> <<0, 0, 0>>, visibleFaces |-> ALL_FACES, mirror |-> FALSE ],
     [ site |-> "renderBook.modelRightPages", per |-> 100,
       from |-> <<0, -400, -1>>, size |-> <<500, 800, 100>>, texOff |-> <<1200, 1000>>,
       poseOff |-> <<0, 0, 0>>, visibleFaces |-> ALL_FACES, mirror |-> FALSE ],
     [ site |-> "renderBook.modelFlipPage", per |-> 200,
       from |-> <<0, -800, 0>>, size |-> <<1000, 1600, 1>>, texOff |-> <<4800, 2000>>,
       poseOff |-> <<0, 0, 0>>, visibleFaces |-> ALL_FACES, mirror |-> FALSE ],
     [ site |-> "renderBell.modelBellBody", per |-> 1,
       from |-> <<-3, -6, -3>>, size |-> <<6, 7, 6>>, texOff |-> <<0, 0>>,
       poseOff |-> <<8, 12, 8>>, visibleFaces |-> ALL_FACES, mirror |-> FALSE ],
     [ site |-> "renderBell.modelBellBase", per |-> 1,
       from |-> <<4, 4, 4>>, size |-> <<8, 2, 8>>, texOff |-> <<0, 13>>,
       poseOff |-> <<0, 0, 0>>, visibleFaces |-> ALL_FACES, mirror |-> FALSE ],
     [ site |-> "renderDecoratedPot.modelNeck1", per |-> 1,
       from |-> <<4, 17, 4>>, size |-> <<8, 3, 8>>, texOff |-> <<0, 0>>,
       poseOff |-> <<0, 0, 0>>, visibleFaces |-> ALL_FACES, mirror |-> FALSE ],
     [ site |-> "renderDecoratedPot.modelNeck2", per |-> 1,
       from |-> <<5, 20, 5>>, size |-> <<6, 1, 6>>, texOff |-> <<0, 5>>,
       poseOff |-> <<0, 0, 0>>, visibleFaces |-> ALL_FACES, mirror |-> FALSE ],
     [ site |-> "renderDecoratedPot.modelTopBottom", per |-> 1,
       from |-> <<0, 0, 0>>, size |-> <<14, 0, 14>>, texOff |-> <<-14, 13>>,
       poseOff |-> <<0, 0, 0>>, visibleFaces |-> ALL_FACES, mirror |-> FALSE ],
     [ site |-> "renderDecoratedPot.modelSide", per |-> 1,
       from |-> <<0, 0, 0>>, size |-> <<14, 16, 0>>, texOff |-> <<1, 0>>,
       poseOff |-> <<0, 0, 0>>, visibleFaces |-> <<NORTH>>, mirror |-> FALSE ],
     [ site |-> "renderBed.head.main", per |-> 1,
       from |-> <<0, 0, 0>>, size |-> <<16, 16, 6>>, texOff |-> <<0, 0>>,
       poseOff |-> <<0, 0, 0>>, visibleFaces |-> ALL_FACES, mirror |-> FALSE ],
     [ site |-> "renderBed.head.left", per |-> 1,
       from |-> <<0, 6, 0>>, size |-> <<3, 3, 3>>, texOff |-> <<50, 6>>,
       poseOff |-> <<0, 0, 0>>, visibleFaces |-> ALL_FACES, mirror |-> FALSE ],
     [ site |-> "renderBed.head.right", per |-> 1,
       from |-> <<-16, 6, 0>>, size |-> <<3, 3, 3>>, texOff |-> <<50, 6>>,
       poseOff |-> <<0, 0, 0>>, visibleFaces |-> ALL_FACES, mirror |-> FALSE ],
     [ site |-> "renderBed.foot.main", per |-> 1,
       from |-> <<0, 0, 0>>, size |-> <<16, 16, 6>>, texOff |-> <<0, 22>>,
       poseOff |-> <<0, 0, 0>>, visibleFaces |-> ALL_FACES, mirror |-> FALSE ],
     [ site |-> "renderBed.foot.left", per |-> 1,
       from |-> <<0, 6, -16>>, size |-> <<3, 3, 3>>, texOff |-> <<50, 0>>,
       poseOff |-> <<0, 0, 0>>, visibleFaces |-> ALL_FACES, mirror |-> FALSE ],
     [ site |-> "renderBed.foot.right", per |-> 1,
       from |-> <<-16, 6, -16>>, size |-> <<3, 3, 3>>, texOff |-> <<50, 12>>,
       poseOff |-> <<0, 0, 0>>, visibleFaces |-> ALL_FACES, mirror |-> FALSE ],
     [ site |-> "renderBanner.modelFlag", per |-> 1,
       from |-> <<-10, 0, -2>>, size |-> <<20, 40, 1>>, texOff |-> <<0, 0>>,
       poseOff |-> <<0, 0, 0>>, visibleFaces |-> ALL_FACES, mirror |-> FALSE ],
     [ site |-> "renderBanner.modelPole", per |-> 1,
       from |-> <<-1, -30, -1>>, size |-> <<2, 42, 2>>, texOff |-> <<44, 0>>,
       poseOff |-> <<0, 0, 0>>, visibleFaces |-> ALL_FACES, mirror |-> FALSE ],
     [ site |-> "renderBanner.modelBar", per |-> 1,
       from |-> <<-10, -32, -1>>, size |-> <<20, 2, 2>>, texOff |-> <<0, 42>>,
       poseOff |-> <<0, 0, 0>>, visibleFaces |-> ALL_FACES, mirror |-> FALSE ],
     [ site |-> "renderPlainSkull.modelHead", per |-> 1,
       from |-> <<-4, -8, -4>>, size |-> <<8, 8, 8>>, texOff |-> <<0, 0>>,
       poseOff |-> <<0, 0, 0>>, visibleFaces |-> ALL_FACES, mirror |-> FALSE ],
     [ site |-> "renderDragonHead.modelUpperLip", per |-> 1,
       from |-> <<-6, -1, -24>>, size |-> <<12, 5, 16>>, texOff |-> <<176, 44>>,
       poseOff |-> <<0, 0, 0>>, visibleFaces |-> ALL_FACES, mirror |-> FALSE ],
     [ site |-> "renderDragonHead.modelUpperHead", per |-> 1,
       from |-> <<-8, -8, -10>>, size |-> <<16, 16, 16>>, texOff |-> <<112, 30>>,
       poseOff |-> <<0, 0, 0>>, visibleFaces |-> ALL_FACES, mirror |-> FALSE ],
     [ site |-> "renderDragonHead.modelScale", per |-> 1,
       from |-> <<-5, -12, -4>>, size |-> <<2, 4, 6>>, texOff |-> <<0, 0>>,
       poseOff |-> <<0, 0, 0>>, visibleFaces |-> <<NORTH, SOUTH, WEST, EAST, UP, DOWN>>, mirror |-> TRUE ],
     [ site |-> "renderDragonHead.modelNoStril", per |-> 1,
       from |-> <<-5, -3, -22>>, size |-> <<2, 2, 4>>, texOff |-> <<112, 0>>,
       poseOff |-> <<0, 0, 0>>, visibleFaces |-> <<NORTH, SOUTH, WEST, EAST, UP, DOWN>>, mirror |-> TRUE ],
     [ site |-> "renderDragonHead.modelScale2", per |-> 1,
       from |-> <<3, -12, -4>>, size |-> <<2, 4, 6>>, texOff |-> <<0, 0>>,
       poseOff |-> <<0, 0, 0>>, visibleFaces |-> ALL_FACES, mirror |-> FALSE ],
     [ site |-> "renderDragonHead.modelNoStril2", per |-> 1,
       from |-> <<3, -3, -22>>, size |-> <<2, 2, 4>>, texOff |-> <<112, 0>>,
       poseOff |-> <<0, 0, 0>>, visibleFaces |-> ALL_FACES, mirror |-> FALSE ],
     [ site |-> "renderDragonHead.modelJaw", per |-> 1,
       from |-> <<-6, 0, -16>>, size |-> <<12, 4, 16>>, texOff |-> <<176, 65>>,
       poseOff |-> <<0, 0, 0>>, visibleFaces |-> ALL_FACES, mirror |-> FALSE ],
     [ site |-> "renderPiglinHead.modelHead1", per |-> 1,
       from |-> <<-5, -8, -4>>, size |-> <<10, 8, 8>>, texOff |-> <<0, 0>>,
       poseOff |-> <<0, 0, 0>>, visibleFaces |-> ALL_FACES, mirror |-> FALSE ],
     [ site |-> "renderPiglinHead.modelHead2", per |-> 1,
       from |-> <<-2, -4, -5>>, size |-> <<4, 4, 1>>, texOff |-> <<31, 1>>,
       poseOff |-> <<0, 0, 0>>, visibleFaces |-> ALL_FACES, mirror |-> FALSE ],
     [ site |-> "renderPiglinHead.modelHead3", per |-> 1,
       from |-> <<2, -2, -5>>, size |-> <<1, 2, 1>>, texOff |-> <<2, 4>>,
       poseOff |-> <<0, 0, 0>>, visibleFaces |-> ALL_FACES, mirror |-> FALSE ],
     [ site |-> "renderPiglinHead.modelHead4", per |-> 1,
       from |-> <<-3, -2, -5>>, size |-> <<1, 2, 1>>, texOff |-> <<2, 0>>,
       poseOff |-> <<0, 0, 0>>, visibleFaces |-> ALL_FACES, mirror |-> FALSE ],
     [ site |-> "renderPiglinHead.modelLeftEar", per |-> 1,
       from |-> <<0, 0, -2>>, size |-> <<1, 5, 4>>, texOff |-> <<51, 6>>,
       poseOff |-> <<0, 0, 0>>, visibleFaces |-> ALL_FACES, mirror |-> FALSE ],
     [ site |-> "renderPiglinHead.modelRightEar", per |-> 1,
       from |-> <<-1, 0, -2>>, size |-> <<1, 5, 4>>, texOff |-> <<39, 6>>,
       poseOff |-> <<0, 0, 0>>, visibleFaces |-> ALL_FACES, mirror |-> FALSE ],
     [ site |-> "renderSign.modelSign", per |-> 1,
       from |-> <<-12, -14, -1>>, size |-> <<24, 12, 2>>, texOff |-> <<0, 0>>,
       poseOff |-> <<0, 0, 0>>, visibleFaces |-> ALL_FACES, mirror |-> FALSE ],
     [ site |-> "renderSign.modelStick", per |-> 1,
       from |-> <<-1, -2, -1>>, size |-> <<2, 14, 2>>, texOff |-> <<0, 14>>,
       poseOff |-> <<0, 0, 0>>, visibleFaces |-> ALL_FACES, mirror |-> FALSE ],
     [ site |-> "renderHangingSign.modelBoard", per |-> 1,
       from |-> <<-7, 0, -1>>, size |-> <<14, 10, 2>>, texOff |-> <<0, 12>>,
       poseOff |-> <<0, 0, 0>>, visibleFaces |-> ALL_FACES, mirror |-> FALSE ],
     [ site |-> "renderHangingSign.modelPlank", per |-> 1,
       from |-> <<-8, -6, -2>>, size |-> <<16, 2, 4>>, texOff |-> <<0, 0>>,
       poseOff |-> <<0, 0, 0>>, visibleFaces |-> ALL_FACES, mirror |-> FALSE ],
     [ site |-> "renderHangingSign.modelChain1", per |-> 2,
       from |-> <<-3, 0, 0>>, size |-> <<6, 12, 0>>, texOff |-> <<0, 12>>,
       poseOff |-> <<0, 0, 0>>, visibleFaces |-> ALL_FACES, mirror |-> FALSE ],
     [ site |-> "renderHangingSign.modelChain2", per |-> 2,
       from |-> <<-3, 0, 0>>, size |-> <<6, 12, 0>>, texOff |-> <<12, 12>>,
       poseOff |-> <<0, 0, 0>>, visibleFaces |-> ALL_FACES, mirror |-> FALSE ],
     [ site |-> "renderHangingSign.modelVChains", per |-> 1,
       from |-> <<-6, -6, 0>>, size |-> <<12, 6, 0>>, texOff |-> <<14, 6>>,
       poseOff |-> <<0, 0, 0>>, visibleFaces |-> ALL_FACES, mirror |-> FALSE ]
  >>

\* the call of the table made at a site
CallSite(site) ==
  LET Pick(calls) == calls[CHOOSE i \in 1..Len(calls) : calls[i].site = site]
  IN  Pick(boxModelCalls)

\* boxModel applied at a call site
BoxCall(site, texture, rotation) ==
  LET Call(c) == boxModel(texture, c.from, c.size, c.texOff, c.poseOff, rotation,
                          c.visibleFaces, c.mirror, TRUE)
  IN  Call(CallSite(site))

(***************************************************************************)
(* Inputs.                                                                 *)
(***************************************************************************)
\* Names that meet every rule of the resolver, names that only look like
\* one (packed_ice ends in ice, glass_pane starts with glass) and a plain one.
BlockNames ==
  { "powder_snow", "iron_bars", "mangrove_roots",
    "frosted_ice", "ice", "honey_block", "slime_block", "glass", "tinted_glass",
    "copper_grate", "waxed_copper_grate",
    "red_stained_glass", "blue_stained_glass",
    "oak_leaves", "packed_ice", "glass_pane", "stone" }

PropKeys == Direction \cup {"waterlogged"}

PropValues == {"true", "false"}

\* the empty map and every map with a single key
PropMaps ==
  {<<>>} \cup {[k \in {key} |-> v] : key \in PropKeys, v \in PropValues}

BlockStates == [blockName : BlockNames, blockProperties : PropMaps]

NoBlock == [blockName |-> "air", blockProperties |-> <<>>]

\* visibleFaces is an array: every subset in the default order, the order
\* renderDragonHead writes, and arrays that name a direction twice
VisibleFacesInputs ==
  {SelectSeq(ALL_FACES, LAMBDA d : d \in S) : S \in SUBSET Direction}
    \cup {<<NORTH, SOUTH, WEST, EAST, UP, DOWN>>}
    \cup {<<d, d>> : d \in Direction}

MaxSize == 3

Sizes == [1..3 -> 0..MaxSize]

\* [0, 0] and the offsets renderDecoratedPot passes
TexOffs == {<<0, 0>>, <<1, 0>>, <<-14, 13>>}

Froms == {<<0, 0, 0>>, <<-1, -2, 14>>}

PoseOffs == {<<0, 0, 0>>, <<0, 9, 1>>}

IDENTITY_ROTATION == [x |-> 0, y |-> 0]

BoxArgs ==
  [ texture : {0},
    from : Froms,
    size : Sizes,
    texOff : TexOffs,
    poseOff : PoseOffs,
    rotation : {IDENTITY_ROTATION},
    visibleFaces : VisibleFacesInputs,
    mirror : BOOLEAN ]

\* the arguments of every call site, with the identity rotation
CallSiteArgs ==
  { [ texture |-> 0,
      from |-> boxModelCalls[i].from,
      size |-> boxModelCalls[i].size,
      texOff |-> boxModelCalls[i].texOff,
      poseOff |-> boxModelCalls[i].poseOff,
      rotation |-> IDENTITY_ROTATION,
      visibleFaces |-> boxModelCalls[i].visibleFaces,
      mirror |-> boxModelCalls[i].mirror ] : i \in 1..Len(boxModelCalls) }

NoArgs == [texture |-> 0, from |-> <<0, 0, 0>>, size |-> <<0, 0, 0>>,
           texOff |-> <<0, 0>>, poseOff |-> <<0, 0, 0>>,
           rotation |-> IDENTITY_ROTATION, visibleFaces |-> <<>>, mirror |-> FALSE]

(***************************************************************************)
(* One call of one of the three functions.                                 *)
(***************************************************************************)
InitShade ==
  /\ pc = "shade"
  /\ direction \in Direction
  /\ shade \in BOOLEAN
  /\ thisBlock = NoBlock
  /\ otherBlock = NoBlock
  /\ boxArgs = NoArgs
  /\ result = NoResult

InitSkip ==
  /\ pc = "skip"
  /\ direction \in Direction
  /\ shade = FALSE
  /\ thisBlock \in BlockStates
  /\ otherBlock \in BlockStates
  /\ boxArgs = NoArgs
  /\ result = NoResult

InitBox ==
  /\ pc = "box"
  /\ direction = DOWN
  /\ shade \in BOOLEAN
  /\ thisBlock = NoBlock
  /\ otherBlock = NoBlock
  /\ boxArgs \in BoxArgs \cup CallSiteArgs
  /\ result = NoResult

\* no renderer runs in a behaviour of Spec
RenderIdle ==
  /\ blockState = NoBlock
  /\ pos = <<0, 0, 0>>
  /\ scene = <<>>
  /\ warnings = <<>>
  /\ atlasMapping = <<>>
  /\ animatedTextureManager = [placed |-> <<>>, cursor |-> 0]
  /\ putCalls = <<>>
  /\ renderType = "solid"
  /\ resolveCalls = 0

Init == (InitShade \/ InitSkip \/ InitBox) /\ RenderIdle /\ DeployIdle

GetShade ==
  /\ pc = "shade"
  /\ result' = getShade(direction, shade)
  /\ pc' = "shadeDone"
  /\ UNCHANGED <<direction, shade, thisBlock, otherBlock, boxArgs>>
  /\ UNCHANGED renderVars
  /\ UNCHANGED deployVars

HardCodedSkipRendering ==
  /\ pc = "skip"
  /\ result' = hardCodedSkipRendering(thisBlock, otherBlock, direction)
  /\ pc' = "skipDone"
  /\ UNCHANGED <<direction, shade, thisBlock, otherBlock, boxArgs>>
  /\ UNCHANGED renderVars
  /\ UNCHANGED deployVars

BoxModel ==
  /\ pc = "box"
  /\ result' = boxModel(boxArgs.texture, boxArgs.from, boxArgs.size, boxArgs.texOff,
                        boxArgs.poseOff, boxArgs.rotation, boxArgs.visibleFaces,
                        boxArgs.mirror, shade)
  /\ pc' = "boxDone"
  /\ UNCHANGED <<direction, shade, thisBlock, otherBlock, boxArgs>>
  /\ UNCHANGED renderVars
  /\ UNCHANGED deployVars

Next == GetShade \/ HardCodedSkipRendering \/ BoxModel

Spec == Init /\ [][Next]_vars

(***************************************************************************)
(* The special block renderer registry.  A RegExp key /.*suffix$/ is a     *)
(* Suffix test, a string key an Exact test.  renderFunc is the name of the *)
(* function of the entry, "noop" for the empty arrow function.             *)
(***************************************************************************)
\* the skull patterns moved in front of piston_head
hardCodedRenderersHeadFirst ==
  << [block |-> Exact("water"), renderFunc |-> "noop"],
     [block |-> Exact("lava"), renderFunc |-> "noop"],
     [block |-> Exact("chest"), renderFunc |-> "renderChest"],
     [block |-> Exact("ender_chest"), renderFunc |-> "renderChest"],
     [block |-> Exact("trapped_chest"), renderFunc |-> "renderChest"],
     [block |-> Suffix("shulker_box"), renderFunc |-> "renderShulkerBox"],
     [block |-> Exact("lectern"), renderFunc |-> "renderLecternBlock", needRenderModel |-> TRUE],
     [block |-> Exact("enchanting_table"), renderFunc |-> "renderEnchantTable",
      needRenderModel |-> TRUE],
     [block |-> Exact("bell"), renderFunc |-> "renderBell", needRenderModel |-> TRUE],
     [block |-> Exact("decorated_pot"), renderFunc |-> "renderDecoratedPot"],
     [block |-> Suffix("_bed"), renderFunc |-> "renderBed"],
     [block |-> Suffix("_banner"), renderFunc |-> "renderBanner"],
     [block |-> Suffix("_skull"), renderFunc |-> "renderSkull"],
     [block |-> Suffix("_head"), renderFunc |-> "renderSkull"],
     [block |-> Exact("piston_head"), renderFunc |-> "noop", needRenderModel |-> TRUE],
     [block |-> Suffix("_hanging_sign"), renderFunc |-> "renderHangingSign"],
     [block |-> Suffix("_sign"), renderFunc |-> "renderSign"] >>

\* the piston_head entry without needRenderModel
hardCodedRenderersPistonHidden ==
  << [block |-> Exact("water"), renderFunc |-> "noop"],
     [block |-> Exact("lava"), renderFunc |-> "noop"],
     [block |-> Exact("chest"), renderFunc |-> "renderChest"],
     [block |-> Exact("ender_chest"), renderFunc |-> "renderChest"],
     [block |-> Exact("trapped_chest"), renderFunc |-> "renderChest"],
     [block |-> Suffix("shulker_box"), renderFunc |-> "renderShulkerBox"],
     [block |-> Exact("lectern"), renderFunc |-> "renderLecternBlock", needRenderModel |-> TRUE],
     [block |-> Exact("enchanting_table"), renderFunc |-> "renderEnchantTable",
      needRenderModel |-> TRUE],
     [block |-> Exact("bell"), renderFunc |-> "renderBell", needRenderModel |-> TRUE],
     [block |-> Exact("decorated_pot"), renderFunc |-> "renderDecoratedPot"],
     [block |-> Suffix("_bed"), renderFunc |-> "renderBed"],
     [block |-> Suffix("_banner"), renderFunc |-> "renderBanner"],
     [block |-> Exact("piston_head"), renderFunc |-> "noop"],
     [block |-> Suffix("_skull"), renderFunc |-> "renderSkull"],
     [block |-> Suffix("_head"), renderFunc |-> "renderSkull"],
     [block |-> Suffix("_hanging_sign"), renderFunc |-> "renderHangingSign"],
     [block |-> Suffix("_sign"), renderFunc |-> "renderSign"] >>

hardCodedRenderers ==
  << [block |-> Exact("water"), renderFunc |-> "noop"],
     [block |-> Exact("lava"), renderFunc |-> "noop"],
     [block |-> Exact("chest"), renderFunc |-> "renderChest"],
     [block |-> Exact("ender_chest"), renderFunc |-> "renderChest"],
     [block |-> Exact("trapped_chest"), renderFunc |-> "renderChest"],
     [block |-> Suffix("shulker_box"), renderFunc |-> "renderShulkerBox"],
     [block |-> Exact("lectern"), renderFunc |-> "renderLecternBlock", needRenderModel |-> TRUE],
     [block |-> Exact("enchanting_table"), renderFunc |-> "renderEnchantTable",
      needRenderModel |-> TRUE],
     [block |-> Exact("bell"), renderFunc |-> "renderBell", needRenderModel |-> TRUE],
     [block |-> Exact("decorated_pot"), renderFunc |-> "renderDecoratedPot"],
     [block |-> Suffix("_bed"), renderFunc |-> "renderBed"],
     [block |-> Suffix("_banner"), renderFunc |-> "renderBanner"],
     [block |-> Exact("piston_head"), renderFunc |-> "noop", needRenderModel |-> TRUE],
     [block |-> Suffix("_skull"), renderFunc |-> "renderSkull"],
     [block |-> Suffix("_head"), renderFunc |-> "renderSkull"],
     [block |-> Suffix("_hanging_sign"), renderFunc |-> "renderHangingSign"],
     [block |-> Suffix("_sign"), renderFunc |-> "renderSign"] >>

\* needRenderModel is optional: an entry without it does not ask for the model
NeedRenderModel(entry) ==
  "needRenderModel" \in DOMAIN entry /\ entry.needRenderModel

\* the positions of the entries whose key matches the name
MatchingEntries(name) ==
  {i \in 1..Len(hardCodedRenderers) : checkNameInSet(name, <<hardCodedRenderers[i].block>>)}

\* the lookup of the host: the first entry in list order whose key matches
renderSpecial(name) ==
  IF MatchingEntries(name) = {} THEN [found |-> FALSE]
  ELSE LET first == CHOOSE i \in MatchingEntries(name) :
                      \A j \in MatchingEntries(name) : i <= j
       IN  [found |-> TRUE, index |-> first, entry |-> hardCodedRenderers[first]]

(***************************************************************************)
(* What the renderers share.                                               *)
(***************************************************************************)
\* modelManager.getSpecialBlocksData(blockName): the texture ids of the slots
\* of a block.  A chest has three (normal, left, right), the other blocks
\* modelled have the one their renderer reads.
getSpecialBlocksData(blockName) ==
  IF blockName \in {"chest", "ender_chest", "trapped_chest"}
  THEN << [block |-> blockName, slot |-> 0],
          [block |-> blockName, slot |-> 1],
          [block |-> blockName, slot |-> 2] >>
  ELSE << [block |-> blockName, slot |-> 0] >>

\* new Rotation(x, y)
Rotation(x, y) == [x |-> x, y |-> y]

fromFacingToRotation(facing) ==
  CASE facing = "south" -> Rotation(0, 0)
    [] facing = "west" -> Rotation(0, 90)
    [] facing = "north" -> Rotation(0, 180)
    [] facing = "east" -> Rotation(0, 270)
    [] OTHER -> Rotation(0, 0)

\* One factor of a THREE.Matrix4 product: the constructor, the source text of
\* its arguments and the run-time values that text reads.  A matrix is the
\* sequence of its factors, .multiply appends.
Factor(op, expr, vals) == [op |-> op, expr |-> expr, vals |-> vals]

\* the material selector handed to renderModelNoCullsWithMS: the render pass
\* it picks, and what it changes on the clone it returns (if it clones)
Material(pass) == [pass |-> pass, clone |-> FALSE]

\* what a renderer has done so far: the scene and the console
Out(sc, w) == [scene |-> sc, warnings |-> w]

\* renderModelNoCullsWithMS(model, blockState, material, scene, transform, flag)
Emit(out, name, model, bs, material, transform, flag) ==
  [out EXCEPT !.scene =
     Append(@, [name |-> name, model |-> model, blockState |-> bs,
                material |-> material, transform |-> transform, flag |-> flag])]

\* console.warn(message, value)
Warn(out, message, value) ==
  [out EXCEPT !.warnings = Append(@, <<message, value>>)]

\* an emission of the cuboid built at a boxModel call site
EmitSite(out, site, texture, rotation, bs, material, transform, flag) ==
  Emit(out, site, BoxCall(site, texture, rotation), bs, material, transform, flag)

\* String.prototype.indexOf of a one-character string: 0-based, -1 when absent
IndexOf(s, ch) ==
  IF \E i \in 1..Len(s) : SubSeq(s, i, i) = ch
  THEN (CHOOSE i \in 1..Len(s) :
          /\ SubSeq(s, i, i) = ch
          /\ \A j \in 1..(i - 1) : SubSeq(s, j, j) # ch) - 1
  ELSE -1

\* String.prototype.substring: both ends clamped to 0..length, swapped when
\* start > end
Clamp(n, len) == IF n < 0 THEN 0 ELSE IF n > len THEN len ELSE n

Substring(s, start, end) ==
  LET a == Clamp(start, Len(s))
      b == Clamp(end, Len(s))
  IN  IF a <= b THEN SubSeq(s, a + 1, b) ELSE SubSeq(s, b + 1, a)

\* String.prototype.includes
StringIncludes(s, sub) ==
  \E i \in 1..(Len(s) - Len(sub) + 1) : SubSeq(s, i, i + Len(sub) - 1) = sub

\* parseInt of a property value: the rotation values "0" .. "15", NaN for
\* undefined
ParseInt(s) ==
  IF \E n \in 0..15 : ToString(n) = s
  THEN [nan |-> FALSE, value |-> CHOOSE n \in 0..15 : ToString(n) = s]
  ELSE [nan |-> TRUE]

\* the % operator of JavaScript: the remainder has the sign of the dividend
JsRemainder(a, b) == IF a >= 0 THEN a % b ELSE -((-a) % b)

(***************************************************************************)
(* renderChest                                                             *)
(***************************************************************************)
ChestEmit(out, variant, texture, rotation, x, y, z, bs) ==
  LET transform == <<Factor("makeTranslation", "x, y, z", <<x, y, z>>)>>
      material == Material("cutout")
      o1 == EmitSite(out, "renderChest." \o variant \o ".modelBottom", texture, rotation,
                     bs, material, transform, FALSE)
      o2 == EmitSite(o1, "renderChest." \o variant \o ".modelLid", texture, rotation,
                     bs, material, transform, FALSE)
  IN  EmitSite(o2, "renderChest." \o variant \o ".modelLock", texture, rotation,
               bs, material, transform, FALSE)

\* an unknown type rendered as a single chest
renderChestFallback(out, x, y, z, bs) ==
  LET specials == getSpecialBlocksData(bs.blockName)
      normalTexture == specials[1]
      leftTexture == specials[2]
      rightTexture == specials[3]
      facing == GetProperty(bs.blockProperties, "facing")
      rotation == fromFacingToRotation(facing)
      type == GetProperty(bs.blockProperties, "type")
  IN  IF type = "left" THEN ChestEmit(out, "left", leftTexture, rotation, x, y, z, bs)
      ELSE IF type = "right" THEN ChestEmit(out, "right", rightTexture, rotation, x, y, z, bs)
      ELSE ChestEmit(out, "single", normalTexture, rotation, x, y, z, bs)

renderChest(out, x, y, z, bs) ==
  LET specials == getSpecialBlocksData(bs.blockName)
      normalTexture == specials[1]
      leftTexture == specials[2]
      rightTexture == specials[3]
      facing == GetProperty(bs.blockProperties, "facing")
      rotation == fromFacingToRotation(facing)
      type == GetProperty(bs.blockProperties, "type")
  IN  IF type = "single" THEN ChestEmit(out, "single", normalTexture, rotation, x, y, z, bs)
      ELSE IF type = "left" THEN ChestEmit(out, "left", leftTexture, rotation, x, y, z, bs)
      ELSE IF type = "right" THEN ChestEmit(out, "right", rightTexture, rotation, x, y, z, bs)
      ELSE Warn(out, "Unknown chest type", type)

(***************************************************************************)
(* renderBed                                                               *)
(***************************************************************************)
BedMatrix(rotation, x, y, z) ==
  << Factor("makeTranslation", "x, y, z", <<x, y, z>>),
     Factor("makeTranslation", "0, 0.5625, 0", <<>>),
     Factor("makeRotationX", "Math.PI / 2", <<>>),
     Factor("makeTranslation", "0.5, 0.5, 0.5", <<>>),
     Factor("makeRotationZ", "(rotation.y / 180 + 1) * Math.PI", <<rotation.y>>),
     Factor("makeTranslation", "-0.5, -0.5, -0.5", <<>>) >>

BedEmit(out, part, leftMatrixRaw, rightMatrixRaw, texture, rotation, x, y, z, bs) ==
  LET matrix == BedMatrix(rotation, x, y, z)
      leftMatrix == matrix \o leftMatrixRaw
      rightMatrix == matrix \o rightMatrixRaw
      material == Material("solid")
      o1 == EmitSite(out, "renderBed." \o part \o ".main", texture, IDENTITY_ROTATION,
                     bs, material, matrix, TRUE)
      o2 == EmitSite(o1, "renderBed." \o part \o ".left", texture, IDENTITY_ROTATION,
                     bs, material, leftMatrix, TRUE)
  IN  EmitSite(o2, "renderBed." \o part \o ".right", texture, IDENTITY_ROTATION,
               bs, material, rightMatrix, TRUE)

renderBed(out, x, y, z, bs) ==
  LET texture == getSpecialBlocksData(bs.blockName)[1]
      rotation == fromFacingToRotation(GetProperty(bs.blockProperties, "facing"))
      part == GetProperty(bs.blockProperties, "part")
  IN  IF part = "head" THEN
        BedEmit(out, "head",
                << Factor("makeRotationZ", "Math.PI / 2", <<>>),
                   Factor("makeRotationX", "Math.PI / 2", <<>>) >>,
                << Factor("makeRotationZ", "Math.PI", <<>>),
                   Factor("makeRotationX", "Math.PI / 2", <<>>) >>,
                texture, rotation, x, y, z, bs)
      ELSE IF part = "foot" THEN
        BedEmit(out, "foot",
                << Factor("makeRotationX", "Math.PI / 2", <<>>) >>,
                << Factor("makeRotationZ", "(Math.PI * 3) / 2", <<>>),
                   Factor("makeRotationX", "Math.PI / 2", <<>>) >>,
                texture, rotation, x, y, z, bs)
      ELSE Warn(out, "Unknown bed part", part)

(***************************************************************************)
(* renderBanner                                                            *)
(***************************************************************************)
dyeColorMapping ==
  [ white |-> 16383998,       \* 0xf9fffe
    orange |-> 16351261,      \* 0xf9801d
    magenta |-> 13061821,     \* 0xc74ebd
    light_blue |-> 3847130,   \* 0x3ab3da
    yellow |-> 16701501,      \* 0xfed83d
    lime |-> 8439583,         \* 0x80c71f
    pink |-> 15961002,        \* 0xf38baa
    gray |-> 4673362,         \* 0x474f52
    light_gray |-> 10329495,  \* 0x9d9d97
    cyan |-> 1481884,         \* 0x169c9c
    purple |-> 8991416,       \* 0x8932b8
    blue |-> 3949738,         \* 0x3c44aa
    brown |-> 8606770,        \* 0x835432
    green |-> 6192150,        \* 0x5e7c16
    red |-> 11546150,         \* 0xb02e26
    black |-> 1908001 ]       \* 0x1d1d21

\* dyeColorMapping[key]: undefined for a key the table does not have
DyeColor(key) ==
  IF key \in DOMAIN dyeColorMapping
  THEN [defined |-> TRUE, value |-> dyeColorMapping[key]]
  ELSE [defined |-> FALSE]

\* const time = 0
time == 0

\* ((x * 7 + y * 9 + z * 13 + time) % 100) / 100, kept as a number of hundredths
Wind(x, y, z, t) ==
  [num |-> JsRemainder(x * 7 + y * 9 + z * 13 + t, 100), den |-> 100]

\* the pole rendered whatever the name
renderBannerAlwaysPole(out, x, y, z, bs) ==
  LET texture == getSpecialBlocksData(bs.blockName)[1]
      blockName == bs.blockName
      wall == EndsWith(blockName, "_wall_banner")
      poleVisible == TRUE
      matrixBase ==
        <<Factor("makeTranslation", "x, y, z", <<x, y, z>>)>>
        \o (IF wall
            THEN LET rotation ==
                       fromFacingToRotation(GetProperty(bs.blockProperties, "facing"))
                 IN  << Factor("makeTranslation", "0.5, -1 / 6, 0.5", <<>>),
                        Factor("makeRotationY", "(-rotation.y / 180) * Math.PI",
                               <<rotation.y>>),
                        Factor("makeTranslation", "0, -0.3125, -0.4375", <<>>) >>
            ELSE LET rotation == ParseInt(GetProperty(bs.blockProperties, "rotation"))
                 IN  << Factor("makeTranslation", "0.5, 0.5, 0.5", <<>>),
                        Factor("makeRotationY", "(-rotation / 8) * Math.PI",
                               <<rotation>>) >>)
        \o <<Factor("makeScale", "2 / 3, -2 / 3, -2 / 3", <<>>)>>
      material == Material("solid")
      o1 == IF poleVisible
            THEN EmitSite(out, "renderBanner.modelPole", texture, IDENTITY_ROTATION,
                          bs, material, matrixBase, TRUE)
            ELSE out
      o2 == EmitSite(o1, "renderBanner.modelBar", texture, IDENTITY_ROTATION,
                     bs, material, matrixBase, TRUE)
      wind == Wind(x, y, z, time)
      flagMatrix ==
        matrixBase
        \o << Factor("makeTranslation", "0, -32 / 16, 0", <<>>),
              Factor("makeRotationX",
                     "Math.PI * (-0.0125 + 0.01 * Math.cos(Math.PI * 2 * wind))",
                     <<wind>>) >>
      dyeColor == DyeColor(Substring(blockName, 0, IndexOf(blockName, "_")))
      flagMaterial == [pass |-> "solid", clone |-> TRUE, color |-> dyeColor,
                       side |-> "DoubleSide"]
  IN  EmitSite(o2, "renderBanner.modelFlag", texture, IDENTITY_ROTATION,
               bs, flagMaterial, flagMatrix, TRUE)

renderBanner(out, x, y, z, bs) ==
  LET texture == getSpecialBlocksData(bs.blockName)[1]
      blockName == bs.blockName
      wall == EndsWith(blockName, "_wall_banner")
      poleVisible == ~wall
      matrixBase ==
        <<Factor("makeTranslation", "x, y, z", <<x, y, z>>)>>
        \o (IF wall
            THEN LET rotation ==
                       fromFacingToRotation(GetProperty(bs.blockProperties, "facing"))
                 IN  << Factor("makeTranslation", "0.5, -1 / 6, 0.5", <<>>),
                        Factor("makeRotationY", "(-rotation.y / 180) * Math.PI",
                               <<rotation.y>>),
                        Factor("makeTranslation", "0, -0.3125, -0.4375", <<>>) >>
            ELSE LET rotation == ParseInt(GetProperty(bs.blockProperties, "rotation"))
                 IN  << Factor("makeTranslation", "0.5, 0.5, 0.5", <<>>),
                        Factor("makeRotationY", "(-rotation / 8) * Math.PI",
                               <<rotation>>) >>)
        \o <<Factor("makeScale", "2 / 3, -2 / 3, -2 / 3", <<>>)>>
      material == Material("solid")
      o1 == IF poleVisible
            THEN EmitSite(out, "renderBanner.modelPole", texture, IDENTITY_ROTATION,
                          bs, material, matrixBase, TRUE)
            ELSE out
      o2 == EmitSite(o1, "renderBanner.modelBar", texture, IDENTITY_ROTATION,
                     bs, material, matrixBase, TRUE)
      wind == Wind(x, y, z, time)
      flagMatrix ==
        matrixBase
        \o << Factor("makeTranslation", "0, -32 / 16, 0", <<>>),
              Factor("makeRotationX",
                     "Math.PI * (-0.0125 + 0.01 * Math.cos(Math.PI * 2 * wind))",
                     <<wind>>) >>
      dyeColor == DyeColor(Substring(blockName, 0, IndexOf(blockName, "_")))
      flagMaterial == [pass |-> "solid", clone |-> TRUE, color |-> dyeColor,
                       side |-> "DoubleSide"]
  IN  EmitSite(o2, "renderBanner.modelFlag", texture, IDENTITY_ROTATION,
               bs, flagMaterial, flagMatrix, TRUE)

(***************************************************************************)
(* renderSkull and its three head builders                                 *)
(***************************************************************************)
renderPlainSkull(out, bs, texture, material, transform, rotation) ==
  LET matrix == transform \o <<Factor("makeRotationY", "rotation", <<rotation>>)>>
  IN  EmitSite(out, "renderPlainSkull.modelHead", texture, IDENTITY_ROTATION,
               bs, material, matrix, TRUE)

renderDragonHead(out, bs, texture, material, transform, rotation) ==
  LET headMatrix ==
        transform
        \o << Factor("makeTranslation", "0, -0.374375, 0", <<>>),
              Factor("makeScale", "0.75, 0.75, 0.75", <<>>),
              Factor("makeRotationY", "rotation", <<rotation>>) >>
      jawMatrix ==
        headMatrix
        \o << Factor("makeTranslation", "0, 4 / 16, -8 / 16", <<>>),
              Factor("makeRotationX", "0.2", <<>>) >>
      o1 == EmitSite(out, "renderDragonHead.modelUpperLip", texture, IDENTITY_ROTATION,
                     bs, material, headMatrix, TRUE)
      o2 == EmitSite(o1, "renderDragonHead.modelUpperHead", texture, IDENTITY_ROTATION,
                     bs, material, headMatrix, TRUE)
      o3 == EmitSite(o2, "renderDragonHead.modelScale", texture, IDENTITY_ROTATION,
                     bs, material, headMatrix, TRUE)
      o4 == EmitSite(o3, "renderDragonHead.modelNoStril", texture, IDENTITY_ROTATION,
                     bs, material, headMatrix, TRUE)
      o5 == EmitSite(o4, "renderDragonHead.modelScale2", texture, IDENTITY_ROTATION,
                     bs, material, headMatrix, TRUE)
      o6 == EmitSite(o5, "renderDragonHead.modelNoStril2", texture, IDENTITY_ROTATION,
                     bs, material, headMatrix, TRUE)
  IN  EmitSite(o6, "renderDragonHead.modelJaw", texture, IDENTITY_ROTATION,
               bs, material, jawMatrix, TRUE)

renderPiglinHead(out, bs, texture, material, transform, rotation) ==
  LET headMatrix == transform \o <<Factor("makeRotationY", "rotation", <<rotation>>)>>
      leftEarMatrix ==
        headMatrix
        \o << Factor("makeTranslation", "4.5 / 16, -6 / 16, 0", <<>>),
              Factor("makeRotationZ", "-0.5", <<>>) >>
      rightEarMatrix ==
        headMatrix
        \o << Factor("makeTranslation", "-4.5 / 16, -6 / 16, 0", <<>>),
              Factor("makeRotationZ", "0.5", <<>>) >>
      o1 == EmitSite(out, "renderPiglinHead.modelHead1", texture, IDENTITY_ROTATION,
                     bs, material, headMatrix, TRUE)
      o2 == EmitSite(o1, "renderPiglinHead.modelHead2", texture, IDENTITY_ROTATION,
                     bs, material, headMatrix, TRUE)
      o3 == EmitSite(o2, "renderPiglinHead.modelHead3", texture, IDENTITY_ROTATION,
                     bs, material, headMatrix, TRUE)
      o4 == EmitSite(o3, "renderPiglinHead.modelHead4", texture, IDENTITY_ROTATION,
                     bs, material, headMatrix, TRUE)
      o5 == EmitSite(o4, "renderPiglinHead.modelLeftEar", texture, IDENTITY_ROTATION,
                     bs, material, leftEarMatrix, TRUE)
  IN  EmitSite(o5, "renderPiglinHead.modelRightEar", texture, IDENTITY_ROTATION,
               bs, material, rightEarMatrix, TRUE)

\* the matrix and the angle renderSkull computes before it dispatches
SkullMatrix(x, y, z, bs) ==
  <<Factor("makeTranslation", "x, y, z", <<x, y, z>>)>>
  \o (IF StringIncludes(bs.blockName, "wall")
      THEN << Factor("makeTranslation",
                     "0.5 - getStepX(direction) * 0.25, 0.25, 0.5 - getStepZ(direction) * 0.25",
                     <<GetProperty(bs.blockProperties, "facing")>>),
              Factor("makeScale", "-1, -1, 1", <<>>) >>
      ELSE << Factor("makeTranslation", "0.5, 0, 0.5", <<>>),
              Factor("makeScale", "-1, -1, 1", <<>>) >>)

SkullRot(bs) ==
  IF StringIncludes(bs.blockName, "wall")
  THEN [expr |-> "(1 - rotation.y / 180) * Math.PI",
        vals |-> <<fromFacingToRotation(GetProperty(bs.blockProperties, "facing")).y>>]
  ELSE [expr |-> "(rotation / 8) * Math.PI",
        vals |-> <<ParseInt(GetProperty(bs.blockProperties, "rotation"))>>]

SkullMaterial(bs) ==
  IF StringIncludes(bs.blockName, "player") THEN Material("translucent")
  ELSE [pass |-> "cutout", clone |-> TRUE, side |-> "DoubleSide"]

\* the piglin test made before the dragon test, and on "head"
renderSkullPlainFirst(out, x, y, z, bs) ==
  LET texture == getSpecialBlocksData(bs.blockName)[1]
      matrix == SkullMatrix(x, y, z, bs)
      rot == SkullRot(bs)
      material == SkullMaterial(bs)
  IN  IF StringIncludes(bs.blockName, "dragon_head")
      THEN renderDragonHead(out, bs, texture, material, matrix, rot)
      ELSE IF StringIncludes(bs.blockName, "piglin")
      THEN renderPiglinHead(out, bs, texture, material, matrix, rot)
      ELSE renderPlainSkull(out, bs, texture, material, matrix, rot)

renderSkull(out, x, y, z, bs) ==
  LET texture == getSpecialBlocksData(bs.blockName)[1]
      matrix == SkullMatrix(x, y, z, bs)
      rot == SkullRot(bs)
      material == SkullMaterial(bs)
  IN  IF StringIncludes(bs.blockName, "dragon")
      THEN renderDragonHead(out, bs, texture, material, matrix, rot)
      ELSE IF StringIncludes(bs.blockName, "piglin")
      THEN renderPiglinHead(out, bs, texture, material, matrix, rot)
      ELSE renderPlainSkull(out, bs, texture, material, matrix, rot)

(***************************************************************************)
(* renderHangingSign                                                       *)
(***************************************************************************)
HangingSignTransform(x, y, z, bs) ==
  <<Factor("makeTranslation", "x, y, z", <<x, y, z>>)>>
  \o (IF StringIncludes(bs.blockName, "wall")
      THEN LET rotation == fromFacingToRotation(GetProperty(bs.blockProperties, "facing"))
           IN  << Factor("makeTranslation", "0.5, 0.9375, 0.5", <<>>),
                  Factor("makeRotationY", "(rotation.y / 180) * Math.PI", <<rotation.y>>),
                  Factor("makeTranslation", "0, -0.3125, 0", <<>>) >>
      ELSE LET rotation == ParseInt(GetProperty(bs.blockProperties, "rotation"))
           IN  << Factor("makeTranslation", "0.5, 0.9375, 0.5", <<>>),
                  Factor("makeRotationY", "(-rotation / 8) * Math.PI", <<rotation>>),
                  Factor("makeTranslation", "0, -0.3125, 0", <<>>) >>)
  \o <<Factor("makeScale", "1, -1, -1", <<>>)>>

\* the four emissions of the two chain cuboids, left then right
HangingSignChains(out, texture, bs, material, transform) ==
  LET chainL1Matrix ==
        transform \o << Factor("makeTranslation", "-5 / 16, -6 / 16, 0", <<>>),
                        Factor("makeRotationY", "-Math.PI / 4", <<>>) >>
      chainL2Matrix ==
        transform \o << Factor("makeTranslation", "-5 / 16, -6 / 16, 0", <<>>),
                        Factor("makeRotationY", "Math.PI / 4", <<>>) >>
      chainR1Matrix ==
        transform \o << Factor("makeTranslation", "5 / 16, -6 / 16, 0", <<>>),
                        Factor("makeRotationY", "-Math.PI / 4", <<>>) >>
      chainR2Matrix ==
        transform \o << Factor("makeTranslation", "5 / 16, -6 / 16, 0", <<>>),
                        Factor("makeRotationY", "Math.PI / 4", <<>>) >>
      o1 == EmitSite(out, "renderHangingSign.modelChain1", texture, IDENTITY_ROTATION,
                     bs, material, chainL1Matrix, TRUE)
      o2 == EmitSite(o1, "renderHangingSign.modelChain2", texture, IDENTITY_ROTATION,
                     bs, material, chainL2Matrix, TRUE)
      o3 == EmitSite(o2, "renderHangingSign.modelChain1", texture, IDENTITY_ROTATION,
                     bs, material, chainR1Matrix, TRUE)
  IN  EmitSite(o3, "renderHangingSign.modelChain2", texture, IDENTITY_ROTATION,
               bs, material, chainR2Matrix, TRUE)

\* the wall branch looking at attached as the other branch does
renderHangingSignWallAttached(out, x, y, z, bs) ==
  LET texture == getSpecialBlocksData(bs.blockName)[1]
      transform == HangingSignTransform(x, y, z, bs)
      material == [pass |-> "cutout", clone |-> TRUE, side |-> "DoubleSide"]
      o1 == EmitSite(out, "renderHangingSign.modelBoard", texture, IDENTITY_ROTATION,
                     bs, material, transform, TRUE)
  IN  IF StringIncludes(bs.blockName, "wall")
      THEN LET o2 == EmitSite(o1, "renderHangingSign.modelPlank", texture,
                              IDENTITY_ROTATION, bs, material, transform, TRUE)
           IN  IF GetProperty(bs.blockProperties, "attached") = "false"
               THEN HangingSignChains(o2, texture, bs, material, transform)
               ELSE EmitSite(o2, "renderHangingSign.modelVChains", texture,
                             IDENTITY_ROTATION, bs, material, transform, TRUE)
      ELSE IF GetProperty(bs.blockProperties, "attached") = "false"
      THEN HangingSignChains(o1, texture, bs, material, transform)
      ELSE EmitSite(o1, "renderHangingSign.modelVChains", texture, IDENTITY_ROTATION,
                    bs, material, transform, TRUE)

renderHangingSign(out, x, y, z, bs) ==
  LET texture == getSpecialBlocksData(bs.blockName)[1]
      transform == HangingSignTransform(x, y, z, bs)
      material == [pass |-> "cutout", clone |-> TRUE, side |-> "DoubleSide"]
      o1 == EmitSite(out, "renderHangingSign.modelBoard", texture, IDENTITY_ROTATION,
                     bs, material, transform, TRUE)
  IN  IF StringIncludes(bs.blockName, "wall")
      THEN LET o2 == EmitSite(o1, "renderHangingSign.modelPlank", texture,
                              IDENTITY_ROTATION, bs, material, transform, TRUE)
           IN  HangingSignChains(o2, texture, bs, material, transform)
      ELSE IF GetProperty(bs.blockProperties, "attached") = "false"
      THEN HangingSignChains(o1, texture, bs, material, transform)
      ELSE EmitSite(o1, "renderHangingSign.modelVChains", texture, IDENTITY_ROTATION,
                    bs, material, transform, TRUE)

(***************************************************************************)
(* resolveSpecialTextures.  A sprite of atlasMapping is either an array    *)
(* [x, y, w, h] (array TRUE, rect) or an animated descriptor (array FALSE, *)
(* frames: the texture ids of its frames).                                 *)
(***************************************************************************)
\* texture.ts: the sizes of the two atlases, kept by name
ATLAS_WIDTH == "ATLAS_WIDTH"
ATLAS_HEIGHT == "ATLAS_HEIGHT"
ANIMATED_TEXTURE_ATLAS_SIZE == "ANIMATED_TEXTURE_ATLAS_SIZE"

\* Array.isArray(sprite)
IsArray(sprite) == sprite.array

\* materialPicker.staticTexture[renderType] / materialPicker.animatedTexture[renderType]
PickerMaterial(kind, pass) == [texture |-> kind, pass |-> pass]

\* animatedTextureManager.putNewTexture(texture, sprite, size): the rectangle
\* of the sprite in the animated atlas, allocated on the first request for
\* the texture id and returned again afterwards
putNewTexture(manager, texture, sprite, size) ==
  IF texture \in DOMAIN manager.placed
  THEN [rect |-> manager.placed[texture], manager |-> manager]
  ELSE LET rect == <<manager.cursor, 0, size[1], size[2]>>
       IN  [rect |-> rect,
            manager |-> [placed |-> [t \in DOMAIN manager.placed \cup {texture} |->
                                       IF t = texture THEN rect ELSE manager.placed[t]],
                         cursor |-> manager.cursor + size[1]]]

\* specialTextureIDs.map(...).map(...): the material of every slot
RECURSIVE resolvedMaterial(_, _, _)
resolvedMaterial(specialTextureIDs, atlas, pass) ==
  IF specialTextureIDs = <<>> THEN <<>>
  ELSE LET sprite == atlas[Head(specialTextureIDs)]
       IN  <<PickerMaterial(IF IsArray(sprite) THEN "staticTexture" ELSE "animatedTexture",
                            pass)>>
           \o resolvedMaterial(Tail(specialTextureIDs), atlas, pass)

\* specialTextureIDs.map(...): the rectangle of every slot; acc carries the
\* rectangles so far, the animated texture manager and its putNewTexture calls
RECURSIVE resolvedSprites(_, _, _)
resolvedSprites(specialTextureIDs, atlas, acc) ==
  IF specialTextureIDs = <<>> THEN acc
  ELSE LET texture == Head(specialTextureIDs)
           sprite == atlas[texture]
       IN  IF IsArray(sprite)
           THEN resolvedSprites(Tail(specialTextureIDs), atlas,
                  [acc EXCEPT !.sprites =
                     Append(@, << sprite.rect[1], sprite.rect[2], sprite.rect[3],
                                  sprite.rect[4], ATLAS_WIDTH, ATLAS_HEIGHT >>)])
           ELSE LET firstFrame == atlas[sprite.frames[1]].rect
                    size == <<firstFrame[3], firstFrame[4]>>
                    put == putNewTexture(acc.manager, texture, sprite, size)
                IN  resolvedSprites(Tail(specialTextureIDs), atlas,
                      [sprites |-> Append(acc.sprites,
                                          << put.rect[1], put.rect[2], put.rect[3],
                                             put.rect[4], ANIMATED_TEXTURE_ATLAS_SIZE,
                                             ANIMATED_TEXTURE_ATLAS_SIZE >>),
                       manager |-> put.manager,
                       calls |-> Append(acc.calls, [texture |-> texture, sprite |-> sprite,
                                                    size |-> size])])

\* every call starting from a manager that has placed nothing
resolveSpecialTexturesNewManager(blockName, atlas, manager, pass) ==
  LET specialTextureIDs == getSpecialBlocksData(blockName)
      sprites == resolvedSprites(specialTextureIDs, atlas,
                                 [sprites |-> <<>>,
                                  manager |-> [placed |-> <<>>, cursor |-> manager.cursor],
                                  calls |-> <<>>])
  IN  [returned |-> <<resolvedMaterial(specialTextureIDs, atlas, pass), sprites.sprites>>,
       manager |-> sprites.manager,
       calls |-> sprites.calls]

\* every slot given the static material
resolveSpecialTexturesStaticMaterial(blockName, atlas, manager, pass) ==
  LET specialTextureIDs == getSpecialBlocksData(blockName)
      sprites == resolvedSprites(specialTextureIDs, atlas,
                                 [sprites |-> <<>>, manager |-> manager, calls |-> <<>>])
  IN  [returned |-> << [i \in 1..Len(specialTextureIDs) |->
                          PickerMaterial("staticTexture", pass)],
                       sprites.sprites >>,
       manager |-> sprites.manager,
       calls |-> sprites.calls]

\* returned is the pair [resolvedMaterial, resolvedSprites]; manager and calls
\* are what the call did to the animated texture manager
resolveSpecialTextures(blockName, atlas, manager, pass) ==
  LET specialTextureIDs == getSpecialBlocksData(blockName)
      sprites == resolvedSprites(specialTextureIDs, atlas,
                                 [sprites |-> <<>>, manager |-> manager, calls |-> <<>>])
  IN  [returned |-> <<resolvedMaterial(specialTextureIDs, atlas, pass), sprites.sprites>>,
       manager |-> sprites.manager,
       calls |-> sprites.calls]

(***************************************************************************)
(* The inputs of the renderers.                                            *)
(***************************************************************************)
MaxCoord == 1

\* block coordinates of either sign
Positions == {<<x, y, z>> : x \in -MaxCoord..MaxCoord, y \in -MaxCoord..MaxCoord,
                            z \in -MaxCoord..MaxCoord}

Facings == {"north", "east"}

Rotations == {"0", "5"}

DyeColors == DOMAIN dyeColorMapping

ChestStates ==
  [blockName : {"chest", "ender_chest", "trapped_chest"},
   blockProperties : {[facing |-> f, type |-> t] :
                        f \in Facings, t \in {"single", "left", "right", "middle"}}
                     \cup {[facing |-> f] : f \in Facings}]

BedStates ==
  [blockName : {"red_bed", "white_bed"},
   blockProperties : {[facing |-> f, part |-> p] :
                        f \in Facings, p \in {"head", "foot", "body"}}
                     \cup {[facing |-> f] : f \in Facings}]

BannerStates ==
  [blockName : {c \o "_banner" : c \in DyeColors},
   blockProperties : {[rotation |-> r] : r \in Rotations}]
  \cup
  [blockName : {c \o "_wall_banner" : c \in DyeColors},
   blockProperties : {[facing |-> f] : f \in Facings}]

SkullStates ==
  [blockName : {"skeleton_skull", "wither_skeleton_skull", "zombie_head", "player_head",
                "dragon_head", "piglin_head"},
   blockProperties : {[rotation |-> r] : r \in Rotations}]
  \cup
  [blockName : {"skeleton_wall_skull", "creeper_wall_head", "player_wall_head",
                "dragon_wall_head", "piglin_wall_head"},
   blockProperties : {[facing |-> f] : f \in Facings}]

HangingSignStates ==
  [blockName : {"oak_hanging_sign", "crimson_hanging_sign"},
   blockProperties : {[rotation |-> r, attached |-> a] :
                        r \in Rotations, a \in {"true", "false"}}
                     \cup {[rotation |-> r] : r \in Rotations}]
  \cup
  [blockName : {"oak_wall_hanging_sign", "crimson_wall_hanging_sign"},
   blockProperties : {[facing |-> f, attached |-> a] :
                        f \in Facings, a \in {"true", "false"}}
                     \cup {[facing |-> f] : f \in Facings}]

\* blocks whose registry function is empty or is not modelled, and blocks the
\* registry does not have
OtherStates ==
  [blockName : {"water", "lava", "piston_head", "piston", "stone", "air", "head",
                "lectern", "enchanting_table", "bell", "decorated_pot",
                "shulker_box", "red_shulker_box", "oak_sign", "oak_wall_sign",
                "sign", "banner", "bed", "red_bed_frame"},
   blockProperties : {<<>>}]

RenderStates ==
  ChestStates \cup BedStates \cup BannerStates \cup SkullStates \cup HangingSignStates
  \cup OtherStates

\* something rendered before the call
PriorScene == <<[name |-> "prior"]>>

\* the renderers of the registry that are modelled
ModelledRenderers == {"noop", "renderChest", "renderBed", "renderBanner", "renderSkull",
                      "renderHangingSign"}

(***************************************************************************)
(* The inputs of resolveSpecialTextures.                                   *)
(***************************************************************************)
MaxCalls == 2

RenderTypes == {"solid", "cutout", "translucent"}

TextureBlocks == {"chest", "red_bed"}

TextureSlots == UNION {{getSpecialBlocksData(b)[i] : i \in 1..Len(getSpecialBlocksData(b))} :
                         b \in TextureBlocks}

\* the frames of the animated sprites are textures of the static atlas
Frame(n) == [block |-> "frame", slot |-> n]

FrameSprites ==
  [t \in {Frame(1), Frame(2)} |->
     IF t = Frame(1) THEN [array |-> TRUE, rect |-> <<16, 0, 16, 16>>]
     ELSE [array |-> TRUE, rect |-> <<32, 0, 8, 32>>]]

SlotSprites ==
  { [array |-> TRUE, rect |-> <<0, 0, 16, 16>>],
    [array |-> FALSE, frames |-> <<Frame(1)>>],
    [array |-> FALSE, frames |-> <<Frame(2), Frame(1)>>] }

AtlasMappings ==
  { [t \in TextureSlots \cup DOMAIN FrameSprites |->
       IF t \in DOMAIN FrameSprites THEN FrameSprites[t] ELSE m[t]] :
    m \in [TextureSlots -> SlotSprites] }

(***************************************************************************)
(* One registry lookup followed by the call of the function it found, or   *)
(* a sequence of resolveSpecialTextures calls.                             *)
(***************************************************************************)
CoreIdle ==
  /\ direction = DOWN
  /\ shade = FALSE
  /\ thisBlock = NoBlock
  /\ otherBlock = NoBlock
  /\ boxArgs = NoArgs
  /\ result = NoResult

coreVars == <<direction, shade, thisBlock, otherBlock, boxArgs>>

textureVars == <<atlasMapping, animatedTextureManager, putCalls, renderType, resolveCalls>>

InitLookup ==
  /\ pc = "lookup"
  /\ CoreIdle
  /\ blockState \in RenderStates
  /\ pos \in Positions
  /\ scene \in {<<>>, PriorScene}
  /\ warnings = <<>>
  /\ atlasMapping = <<>>
  /\ animatedTextureManager = [placed |-> <<>>, cursor |-> 0]
  /\ putCalls = <<>>
  /\ renderType = "solid"
  /\ resolveCalls = 0
  /\ DeployIdle

InitTextures ==
  /\ pc = "textures"
  /\ CoreIdle
  /\ blockState = NoBlock
  /\ pos = <<0, 0, 0>>
  /\ scene = <<>>
  /\ warnings = <<>>
  /\ atlasMapping \in AtlasMappings
  /\ animatedTextureManager = [placed |-> <<>>, cursor |-> 0]
  /\ putCalls = <<>>
  /\ renderType = "solid"
  /\ resolveCalls = 0
  /\ DeployIdle

InitRender == InitLookup \/ InitTextures

\* the host looks the block up and calls the function of the entry it found
Lookup ==
  /\ pc = "lookup"
  /\ result' = renderSpecial(blockState.blockName)
  /\ pc' = IF result'.found /\ result'.entry.renderFunc \in ModelledRenderers
           THEN result'.entry.renderFunc
           ELSE "lookupDone"
  /\ UNCHANGED coreVars
  /\ UNCHANGED deployVars
  /\ UNCHANGED renderVars

\* () => {}
Noop ==
  /\ pc = "noop"
  /\ pc' = "noopDone"
  /\ UNCHANGED <<result, blockState, pos, scene, warnings>>
  /\ UNCHANGED coreVars
  /\ UNCHANGED deployVars
  /\ UNCHANGED textureVars

RenderChest ==
  /\ pc = "renderChest"
  /\ LET out == renderChest(Out(scene, warnings), pos[1], pos[2], pos[3], blockState)
     IN  scene' = out.scene /\ warnings' = out.warnings
  /\ pc' = "renderChestDone"
  /\ UNCHANGED <<result, blockState, pos>>
  /\ UNCHANGED coreVars
  /\ UNCHANGED deployVars
  /\ UNCHANGED textureVars

RenderBed ==
  /\ pc = "renderBed"
  /\ LET out == renderBed(Out(scene, warnings), pos[1], pos[2], pos[3], blockState)
     IN  scene' = out.scene /\ warnings' = out.warnings
  /\ pc' = "renderBedDone"
  /\ UNCHANGED <<result, blockState, pos>>
  /\ UNCHANGED coreVars
  /\ UNCHANGED deployVars
  /\ UNCHANGED textureVars

RenderBanner ==
  /\ pc = "renderBanner"
  /\ LET out == renderBanner(Out(scene, warnings), pos[1], pos[2], pos[3], blockState)
     IN  scene' = out.scene /\ warnings' = out.warnings
  /\ pc' = "renderBannerDone"
  /\ UNCHANGED <<result, blockState, pos>>
  /\ UNCHANGED coreVars
  /\ UNCHANGED deployVars
  /\ UNCHANGED textureVars

RenderSkull ==
  /\ pc = "renderSkull"
  /\ LET out == renderSkull(Out(scene, warnings), pos[1], pos[2], pos[3], blockState)
     IN  scene' = out.scene /\ warnings' = out.warnings
  /\ pc' = "renderSkullDone"
  /\ UNCHANGED <<result, blockState, pos>>
  /\ UNCHANGED coreVars
  /\ UNCHANGED deployVars
  /\ UNCHANGED textureVars

RenderHangingSign ==
  /\ pc = "renderHangingSign"
  /\ LET out == renderHangingSign(Out(scene, warnings), pos[1], pos[2], pos[3], blockState)
     IN  scene' = out.scene /\ warnings' = out.warnings
  /\ pc' = "renderHangingSignDone"
  /\ UNCHANGED <<result, blockState, pos>>
  /\ UNCHANGED coreVars
  /\ UNCHANGED deployVars
  /\ UNCHANGED textureVars

ResolveSpecialTextures ==
  /\ pc \in {"textures", "texturesDone"}
  /\ resolveCalls < MaxCalls
  /\ \E blockName \in TextureBlocks, pass \in RenderTypes :
       LET r == resolveSpecialTextures(blockName, atlasMapping, animatedTextureManager, pass)
       IN  /\ blockState' = [blockName |-> blockName, blockProperties |-> <<>>]
           /\ renderType' = pass
           /\ result' = r.returned
           /\ animatedTextureManager' = r.manager
           /\ putCalls' = r.calls
  /\ resolveCalls' = resolveCalls + 1
  /\ pc' = "texturesDone"
  /\ UNCHANGED <<pos, scene, warnings, atlasMapping>>
  /\ UNCHANGED coreVars
  /\ UNCHANGED deployVars

NextRender ==
  \/ Lookup
  \/ Noop
  \/ RenderChest
  \/ RenderBed
  \/ RenderBanner
  \/ RenderSkull
  \/ RenderHangingSign
  \/ ResolveSpecialTextures

SpecRender == InitRender /\ [][NextRender]_vars

(***************************************************************************)
(* scripts/deployConfig.ts and scripts/updateGadgets.ts.  An async         *)
(* function runs without interruption up to its next await; what follows   *)
(* the await runs in a later step, once the awaited operation has          *)
(* completed.  forEach starts its async callback for every file and does   *)
(* not wait for the promises they return.                                  *)
(***************************************************************************)
targets ==
  << [ type |-> "production", name |-> "en",
       apiUrl |-> "https://minecraft.wiki/api.php",
       credentials |-> "PROD", useLocalMessages |-> FALSE ],
     [ type |-> "production", name |-> "zh",
       apiUrl |-> "https://zh.minecraft.wiki/api.php",
       credentials |-> "PROD", useLocalMessages |-> TRUE ],
     [ type |-> "development", name |-> "en_dev",
       apiUrl |-> "https://mc-dev.weirdgloop.org/api.php",
       credentials |-> "DEV", useLocalMessages |-> FALSE ] >>

\* the file lists a manifest may hold
Manifests ==
  { <<"Gadget-mcw-calc-core.js">>,
    <<"Gadget-mcw-calc-core.js", "Gadget-mcw-calc-core.css">>,
    <<"Gadget-mcw-calc-core.js", "Gadgets-definition">> }

\* lines 8-19 have run: the manifest and the two definitions are read
InitDeploy ==
  /\ pc = "main"
  /\ CoreIdle
  /\ blockState = NoBlock
  /\ pos = <<0, 0, 0>>
  /\ scene = <<>>
  /\ warnings = <<>>
  /\ atlasMapping = <<>>
  /\ animatedTextureManager = [placed |-> <<>>, cursor |-> 0]
  /\ putCalls = <<>>
  /\ renderType = "solid"
  /\ resolveCalls = 0
  /\ manifest \in [prod : Manifests, dev : Manifests]
  /\ bots = <<>>
  /\ saved = {}

\* update(target, names, definition) up to its first await: Mwn.init is pending.
\* files[k] is where the forEach callback of file k is, edit where bot.edit is
update(target, names, definition) ==
  [ target |-> target, names |-> names, definition |-> definition,
    pc |-> "Mwn.init", files |-> [k \in 1..Len(names) |-> "notStarted"],
    edit |-> "notIssued" ]

\* Promise.all(targets.map(...)): every update call is started
Main ==
  /\ pc = "main"
  /\ bots' = [i \in 1..Len(targets) |->
                IF targets[i].type = "production"
                THEN update(targets[i], manifest.prod, "definitionProd")
                ELSE update(targets[i], manifest.dev, "definitionDev")]
  /\ pc' = "mainDone"
  /\ UNCHANGED <<manifest, saved, result>>
  /\ UNCHANGED coreVars
  /\ UNCHANGED renderVars

\* Mwn.init has completed: lines 42-68 run to the end of update.  forEach
\* runs every callback up to its await of fs.readFile, then bot.edit is called
UpdateAfterInit(i) ==
  /\ pc = "mainDone"
  /\ bots[i].pc = "Mwn.init"
  /\ bots' = [bots EXCEPT ![i].pc = "returned",
                          ![i].files = [k \in 1..Len(bots[i].names) |-> "fs.readFile"],
                          ![i].edit = "issued"]
  /\ UNCHANGED <<pc, manifest, saved, result>>
  /\ UNCHANGED coreVars
  /\ UNCHANGED renderVars

\* fs.readFile of file k has completed: the callback goes on to bot.save,
\* unless the file is Gadgets-definition
CallbackAfterRead(i, k) ==
  /\ pc = "mainDone"
  /\ bots[i].files[k] = "fs.readFile"
  /\ bots' = [bots EXCEPT ![i].files[k] =
                IF bots[i].names[k] # "Gadgets-definition" THEN "bot.save" ELSE "done"]
  /\ UNCHANGED <<pc, manifest, saved, result>>
  /\ UNCHANGED coreVars
  /\ UNCHANGED renderVars

\* bot.save of file k has completed: the page is written, the callback logs
\* and ends
CallbackAfterSave(i, k) ==
  /\ pc = "mainDone"
  /\ bots[i].files[k] = "bot.save"
  /\ bots' = [bots EXCEPT ![i].files[k] = "done"]
  /\ saved' = saved \cup {<<bots[i].target.name, "MediaWiki:" \o bots[i].names[k]>>}
  /\ UNCHANGED <<pc, manifest, result>>
  /\ UNCHANGED coreVars
  /\ UNCHANGED renderVars

\* bot.edit has completed
EditDone(i) ==
  /\ pc = "mainDone"
  /\ bots[i].edit = "issued"
  /\ bots' = [bots EXCEPT ![i].edit = "done"]
  /\ UNCHANGED <<pc, manifest, saved, result>>
  /\ UNCHANGED coreVars
  /\ UNCHANGED renderVars

NextDeploy ==
  \/ Main
  \/ \E i \in DOMAIN bots : UpdateAfterInit(i)
  \/ \E i \in DOMAIN bots : \E k \in DOMAIN bots[i].files : CallbackAfterRead(i, k)
  \/ \E i \in DOMAIN bots : \E k \in DOMAIN bots[i].files : CallbackAfterSave(i, k)
  \/ \E i \in DOMAIN bots : EditDone(i)

SpecDeploy == InitDeploy /\ [][NextDeploy]_vars

(***************************************************************************)
(* Properties of getShade.                                                 *)
(***************************************************************************)
\* C1: getShade returns 1 for every direction when shade is false; when shade
\* is true it returns 0.5 for DOWN, 1 for UP, 0.8 for NORTH and SOUTH, 0.6 for
\* EAST and WEST; every result lies in (0, 1].
C1_ShadeTable ==
  pc = "shadeDone" =>
    /\ ~shade => result.num = result.den
    /\ shade /\ direction = DOWN => result.num * 2 = result.den
    /\ shade /\ direction = UP => result.num = result.den
    /\ shade /\ direction \in {NORTH, SOUTH} => result.num * 5 = result.den * 4
    /\ shade /\ direction \in {EAST, WEST} => result.num * 5 = result.den * 3
    /\ 0 < result.num /\ result.num <= result.den /\ result.den > 0

C1_Witness ==
  pc = "shadeDone" /\ shade /\ direction = DOWN /\ result.num * 2 = result.den

(***************************************************************************)
(* Properties of hardCodedSkipRendering.                                   *)
(***************************************************************************)
SkipDone == pc = "skipDone"

SameName(n) == thisBlock.blockName = n /\ otherBlock.blockName = n

\* the names the half-transparent rule is documented to cover
HalfTransparentName(n) ==
  \/ n \in {"frosted_ice", "ice", "honey_block", "slime_block", "glass", "tinted_glass"}
  \/ EndsWith(n, "copper_grate")
  \/ EndsWith(n, "stained_glass")

\* C2: for two iron_bars the face is skipped if and only if the direction is
\* horizontal, this block's property for the direction is "true" and the other
\* block's property for the opposite direction is "true".
C2_IronBars ==
  SkipDone /\ SameName("iron_bars") =>
    (result <=>
       /\ direction \in {NORTH, SOUTH, WEST, EAST}
       /\ GetProperty(thisBlock.blockProperties, direction) = "true"
       /\ GetProperty(otherBlock.blockProperties, oppositeDirection(direction)) = "true")

C2_Witness ==
  /\ SkipDone /\ SameName("iron_bars") /\ direction = NORTH
  /\ GetProperty(thisBlock.blockProperties, "north") = "true"
  /\ GetProperty(otherBlock.blockProperties, "south") = "true"
  /\ result = TRUE

\* C3: for two mangrove_roots the face is skipped for UP and DOWN and not
\* skipped for the four horizontal directions, whatever the properties.
C3_MangroveRoots ==
  SkipDone /\ SameName("mangrove_roots") =>
    (result <=> direction \in {UP, DOWN})

C3_Witness ==
  /\ SkipDone /\ SameName("mangrove_roots") /\ direction = NORTH
  /\ GetProperty(thisBlock.blockProperties, "north") = "true"
  /\ result = FALSE

\* C4: for two blocks of the same name, powder_snow or a half-transparent
\* name, the face is skipped in all six directions whatever the properties.
C4_SameHalfTransparent ==
  /\ SkipDone
  /\ thisBlock.blockName = otherBlock.blockName
  /\ thisBlock.blockName = "powder_snow" \/ HalfTransparentName(thisBlock.blockName)
  => result = TRUE

C4_Witness ==
  /\ SkipDone /\ SameName("red_stained_glass") /\ direction = UP
  /\ thisBlock.blockProperties # otherBlock.blockProperties
  /\ result = TRUE

\* C5 as stated: for two blocks of the same name ending in _leaves the face is
\* skipped in every direction.
C5_LeavesSkipped ==
  /\ SkipDone
  /\ thisBlock.blockName = otherBlock.blockName
  /\ EndsWith(thisBlock.blockName, "_leaves")
  => result = TRUE

\* C5 amended: for two blocks of the same name ending in _leaves the face is
\* not skipped, in every direction; hardCodedSkipRendering does not consult
\* leavesBlocks.
C5_LeavesNotSkipped ==
  /\ SkipDone
  /\ thisBlock.blockName = otherBlock.blockName
  /\ EndsWith(thisBlock.blockName, "_leaves")
  => result = FALSE

C5_Witness ==
  SkipDone /\ SameName("oak_leaves") /\ direction = EAST /\ result = FALSE

\* C6: for two blocks of different names the face is never skipped, for every
\* direction and every property assignment.
C6_DifferentNames ==
  SkipDone /\ thisBlock.blockName # otherBlock.blockName => result = FALSE

C6_Witness ==
  /\ SkipDone
  /\ thisBlock.blockName = "red_stained_glass"
  /\ otherBlock.blockName = "blue_stained_glass"
  /\ result = FALSE

\* C7: the decision is the same seen from the other side of the face:
\* hardCodedSkipRendering(a, b, d) = hardCodedSkipRendering(b, a, opposite(d)).
C7_Symmetric ==
  SkipDone =>
    result = hardCodedSkipRendering(otherBlock, thisBlock, oppositeDirection(direction))

C7_Witness ==
  /\ SkipDone /\ SameName("iron_bars") /\ direction = WEST
  /\ GetProperty(thisBlock.blockProperties, "west") = "true"
  /\ GetProperty(otherBlock.blockProperties, "east") = "true"
  /\ result = TRUE
  /\ hardCodedSkipRendering(otherBlock, thisBlock, EAST) = TRUE

(***************************************************************************)
(* Properties of boxModel.                                                 *)
(***************************************************************************)
BoxDone == pc = "boxDone"

Faces == result.elements[1].faces

Requested == {boxArgs.visibleFaces[i] : i \in 1..Len(boxArgs.visibleFaces)}

Abs(n) == IF n < 0 THEN -n ELSE n

Width == boxArgs.size[1]

Height == boxArgs.size[2]

Depth == boxArgs.size[3]

\* C8: the face map has an entry for a direction if and only if the direction
\* is in visibleFaces, with mirror true or false.
C8_FacesAreRequested ==
  BoxDone => DOMAIN Faces = Requested

C8_Witness ==
  /\ BoxDone /\ boxArgs.visibleFaces = <<NORTH>> /\ boxArgs.mirror
  /\ DOMAIN Faces = {NORTH}

\* C9: for every face produced, |u1 - u0| is width for DOWN, UP, NORTH, SOUTH
\* and depth for WEST, EAST; |v1 - v0| is depth for DOWN, UP and height for
\* WEST, NORTH, EAST, SOUTH; with mirror false and with mirror true.
C9_SpansMatchSize ==
  BoxDone =>
    \A d \in DOMAIN Faces :
      /\ Abs(Faces[d].uv[3] - Faces[d].uv[1]) =
           (IF d \in {DOWN, UP, NORTH, SOUTH} THEN Width ELSE Depth)
      /\ Abs(Faces[d].uv[4] - Faces[d].uv[2]) =
           (IF d \in {DOWN, UP} THEN Depth ELSE Height)

C9_Witness ==
  /\ BoxDone /\ ~boxArgs.mirror /\ DOMAIN Faces = Direction
  /\ Width = 1 /\ Height = 2 /\ Depth = 3
  /\ Abs(Faces[SOUTH].uv[3] - Faces[SOUTH].uv[1]) = 1
  /\ Abs(Faces[EAST].uv[3] - Faces[EAST].uv[1]) = 3

\* the uv boxModel gives face d on the same inputs with mirror negated
OtherMirrorUV(d) ==
  boxModel(boxArgs.texture, boxArgs.from, boxArgs.size, boxArgs.texOff,
           boxArgs.poseOff, boxArgs.rotation, boxArgs.visibleFaces,
           ~boxArgs.mirror, shade).elements[1].faces[d].uv

\* C10: with positive width, height and depth, for each face the uv with
\* mirror true is distinct from the uv with mirror false and is its horizontal
\* flip: same v0 and v1, u0 and u1 exchanged.
C10_MirrorFlipsEveryFace ==
  BoxDone /\ Width > 0 /\ Height > 0 /\ Depth > 0 =>
    \A d \in DOMAIN Faces :
      /\ Faces[d].uv # OtherMirrorUV(d)
      /\ Faces[d].uv[2] = OtherMirrorUV(d)[2]
      /\ Faces[d].uv[4] = OtherMirrorUV(d)[4]
      /\ Faces[d].uv[1] = OtherMirrorUV(d)[3]
      /\ Faces[d].uv[3] = OtherMirrorUV(d)[1]

\* C11: boxModel hands bakeModel exactly one element, with from = from +
\* poseOffset and to = from + size + poseOffset componentwise, so to - from is
\* size and from <= to; the arguments of every call site of hardcodes.ts are
\* among the calls checked, and all their sizes are non-negative.
C11_OneCuboid ==
  BoxDone =>
    /\ Len(result.elements) = 1
    /\ \A i \in 1..3 :
         /\ result.elements[1].from[i] = boxArgs.from[i] + boxArgs.poseOff[i]
         /\ result.elements[1].to[i] = boxArgs.from[i] + boxArgs.size[i] + boxArgs.poseOff[i]
         /\ result.elements[1].to[i] - result.elements[1].from[i] = boxArgs.size[i]
         /\ result.elements[1].from[i] <= result.elements[1].to[i]
    /\ \A j \in 1..Len(boxModelCalls) : \A i \in 1..3 : boxModelCalls[j].size[i] >= 0

\* the lid of a single chest: pose offset [0, 9, 1]
C11_Witness ==
  /\ BoxDone
  /\ boxArgs.from = CallSite("renderChest.single.modelLid").from
  /\ boxArgs.size = CallSite("renderChest.single.modelLid").size
  /\ boxArgs.poseOff = <<0, 9, 1>>
  /\ result.elements[1].from = <<1, 9, 1>>
  /\ result.elements[1].to = <<15, 14, 15>>

(***************************************************************************)
(* Properties of the registry and of the renderers (SpecRender).           *)
(***************************************************************************)
\* the lookup of the behaviour has returned
LookupDone == pc \notin {"lookup", "textures", "texturesDone"}

\* what the call of the behaviour has put into the scene
Emitted ==
  IF scene # <<>> /\ scene[1].name = "prior" THEN Tail(scene) ELSE scene

\* C12: matching a block name against hardCodedRenderers in list order, first
\* match wins, never lets a generic pattern shadow a more specific entry:
\* piston_head resolves to the piston_head entry (empty render function), every
\* name ending in _hanging_sign resolves to the hanging sign entry, the entry
\* found is the first one whose key matches, and a name matching no key
\* resolves to no entry.
C12_FirstMatchWins ==
  LookupDone =>
    LET name == blockState.blockName
    IN  /\ name = "piston_head" =>
             /\ result.found
             /\ result.entry.block = Exact("piston_head")
             /\ result.entry.renderFunc = "noop"
        /\ EndsWith(name, "_hanging_sign") =>
             /\ result.found
             /\ result.entry.block = Suffix("_hanging_sign")
             /\ result.entry.renderFunc = "renderHangingSign"
        /\ result.found =>
             /\ MatchesTest(name, hardCodedRenderers[result.index].block)
             /\ \A j \in 1..(result.index - 1) :
                  ~MatchesTest(name, hardCodedRenderers[j].block)
        /\ (\A i \in 1..Len(hardCodedRenderers) :
              ~MatchesTest(name, hardCodedRenderers[i].block)) => ~result.found

\* piston_head matches /.*_head$/ as well and is resolved to its own entry
C12_Witness ==
  /\ pc = "noopDone"
  /\ blockState.blockName = "piston_head"
  /\ MatchesTest("piston_head", Suffix("_head"))
  /\ result.found
  /\ result.entry.block = Exact("piston_head")

\* C13 (as the code has it): the piston_head entry keeps the skull pattern
\* from matching piston_head; its render function emits nothing, and the
\* entry does request the generic model (needRenderModel is true).
C13_PistonHeadKeepsModel ==
  /\ \A i \in 1..Len(hardCodedRenderers) :
       hardCodedRenderers[i].block = Exact("piston_head") =>
         /\ hardCodedRenderers[i].renderFunc = "noop"
         /\ NeedRenderModel(hardCodedRenderers[i])
  /\ (LookupDone /\ blockState.blockName = "piston_head") =>
       /\ result.found
       /\ NeedRenderModel(result.entry)
       /\ Emitted = <<>>
       /\ warnings = <<>>

\* C13 (as stated): needRenderModel is not set for piston_head
C13_PistonHeadHidesModel ==
  (LookupDone /\ blockState.blockName = "piston_head") =>
    /\ result.found
    /\ result.entry.renderFunc = "noop"
    /\ ~NeedRenderModel(result.entry)
    /\ Emitted = <<>>

\* the empty function of piston_head has run on a scene that had something
C13_Witness ==
  /\ pc = "noopDone"
  /\ blockState.blockName = "piston_head"
  /\ result.entry.needRenderModel
  /\ scene = PriorScene

\* the scene and the console after n emissions and no warning
EmittedOnly(n) ==
  /\ Len(scene') = Len(scene) + n
  /\ SubSeq(scene', 1, Len(scene)) = scene
  /\ warnings' = warnings

\* the scene and the console after one warning and no emission
WarnedOnly ==
  /\ scene' = scene
  /\ Len(warnings') = Len(warnings) + 1
  /\ SubSeq(warnings', 1, Len(warnings)) = warnings

\* C14: renderChest emits exactly 3 cuboids when type is single, left or
\* right and renderBed exactly 3 when part is head or foot; for any other
\* value, or the property missing, the renderer leaves the scene as it was,
\* logs exactly one warning and returns.
C14_UnknownVariantNotFatal ==
  [][ /\ RenderChest =>
           IF GetProperty(blockState.blockProperties, "type") \in {"single", "left", "right"}
           THEN EmittedOnly(3)
           ELSE WarnedOnly /\ pc' = "renderChestDone"
      /\ RenderBed =>
           IF GetProperty(blockState.blockProperties, "part") \in {"head", "foot"}
           THEN EmittedOnly(3)
           ELSE WarnedOnly /\ pc' = "renderBedDone" ]_vars

\* a chest of type middle rendered into a scene that had something
C14_Witness ==
  /\ pc = "renderChestDone"
  /\ GetProperty(blockState.blockProperties, "type") = "middle"
  /\ scene = PriorScene
  /\ warnings = << <<"Unknown chest type", "middle">> >>

\* the cuboid a renderer of this block builds at a call site
SiteModel(site) ==
  BoxCall(site, getSpecialBlocksData(blockState.blockName)[1], IDENTITY_ROTATION)

\* the emissions of the call are the cuboids of these call sites, in order
EmittedSites(sites) ==
  /\ Len(Emitted) = Len(sites)
  /\ \A i \in 1..Len(sites) : Emitted[i].model = SiteModel(sites[i])

\* the factors of a transform that read the wind
WindFactors(transform) ==
  {i \in 1..Len(transform) : transform[i].op = "makeRotationX"}

BannerDone == pc = "renderBannerDone"

\* C15: renderBanner emits the pole iff the name does not end in _wall_banner,
\* and always the bar and the flag, in the order pole, bar, flag: 3 emissions
\* for a standing banner, 2 for a wall banner; the wind rotation is the last
\* factor of the flag's transform and is in no other transform.
C15_PoleBarFlag ==
  BannerDone =>
    LET wall == EndsWith(blockState.blockName, "_wall_banner")
        n == Len(Emitted)
    IN  /\ IF wall
           THEN EmittedSites(<<"renderBanner.modelBar", "renderBanner.modelFlag">>)
           ELSE EmittedSites(<<"renderBanner.modelPole", "renderBanner.modelBar",
                               "renderBanner.modelFlag">>)
        /\ n = (IF wall THEN 2 ELSE 3)
        /\ \A i \in 1..(n - 1) :
             /\ WindFactors(Emitted[i].transform) = {}
             /\ Emitted[i].transform = Emitted[n - 1].transform
        /\ Len(Emitted[n].transform) = Len(Emitted[n - 1].transform) + 2
        /\ SubSeq(Emitted[n].transform, 1, Len(Emitted[n - 1].transform))
             = Emitted[n - 1].transform
        /\ WindFactors(Emitted[n].transform) = {Len(Emitted[n].transform)}
        /\ Emitted[n].transform[Len(Emitted[n].transform)].vals
             = <<Wind(pos[1], pos[2], pos[3], time)>>

\* a wall banner where the wind is not zero
C15_Witness ==
  /\ BannerDone
  /\ blockState.blockName = "red_wall_banner"
  /\ pos = <<1, 1, 0>>
  /\ Len(Emitted) = 2
  /\ Emitted[2].transform[7].vals = <<[num |-> 16, den |-> 100]>>

\* the color renderBanner sets on the material of the flag
FlagColor == Emitted[Len(Emitted)].material.color

\* C16: for each of the 16 keys c of the dye color table and for both block
\* names c_banner and c_wall_banner, the flag color is the table value of c
\* and is never undefined.
C16_DyeColorTotal ==
  BannerDone =>
    /\ FlagColor.defined
    /\ \A c \in DyeColors :
         blockState.blockName \in {c \o "_banner", c \o "_wall_banner"} =>
           FlagColor.value = dyeColorMapping[c]

\* C17: for block coordinates of either sign the wind renderBanner computes
\* lies in {0, 0.01, ..., 0.99} and is the same 100 time units later.
C17_WindInRange ==
  BannerDone =>
    LET wind == Emitted[Len(Emitted)].transform[Len(Emitted[Len(Emitted)].transform)].vals[1]
    IN  /\ wind = Wind(pos[1], pos[2], pos[3], time)
        /\ wind.den = 100
        /\ wind.num \in 0..99
        /\ Wind(pos[1], pos[2], pos[3], time + 100) = wind

SkullDone == pc = "renderSkullDone"

DragonSites ==
  << "renderDragonHead.modelUpperLip", "renderDragonHead.modelUpperHead",
     "renderDragonHead.modelScale", "renderDragonHead.modelNoStril",
     "renderDragonHead.modelScale2", "renderDragonHead.modelNoStril2",
     "renderDragonHead.modelJaw" >>

PiglinSites ==
  << "renderPiglinHead.modelHead1", "renderPiglinHead.modelHead2",
     "renderPiglinHead.modelHead3", "renderPiglinHead.modelHead4",
     "renderPiglinHead.modelLeftEar", "renderPiglinHead.modelRightEar" >>

\* C18: renderSkull runs exactly one head builder: the dragon builder (7
\* emissions) when the name contains dragon, otherwise the piglin builder (6)
\* when it contains piglin, otherwise the plain builder (1); whether the name
\* contains wall makes no difference.
C18_OneHeadBuilder ==
  SkullDone =>
    /\ \/ EndsWith(blockState.blockName, "_skull")
       \/ EndsWith(blockState.blockName, "_head")
    /\ IF StringIncludes(blockState.blockName, "dragon")
       THEN EmittedSites(DragonSites) /\ Len(Emitted) = 7
       ELSE IF StringIncludes(blockState.blockName, "piglin")
       THEN EmittedSites(PiglinSites) /\ Len(Emitted) = 6
       ELSE EmittedSites(<<"renderPlainSkull.modelHead">>) /\ Len(Emitted) = 1
    /\ warnings = <<>>

\* the dragon head on a wall
C18_Witness ==
  /\ SkullDone
  /\ blockState.blockName = "dragon_wall_head"
  /\ Len(Emitted) = 7
  /\ Emitted[7].model = SiteModel("renderDragonHead.modelJaw")

HangingSignDone == pc = "renderHangingSignDone"

\* the emissions i .. i + 3 are the two chain cuboids at the left and at the
\* right position
FourChains(i) ==
  /\ Emitted[i].model = SiteModel("renderHangingSign.modelChain1")
  /\ Emitted[i + 1].model = SiteModel("renderHangingSign.modelChain2")
  /\ Emitted[i + 2].model = SiteModel("renderHangingSign.modelChain1")
  /\ Emitted[i + 3].model = SiteModel("renderHangingSign.modelChain2")
  /\ \A k \in 0..1 :
       /\ Len(Emitted[i + k].transform) = Len(Emitted[1].transform) + 2
       /\ Emitted[i + k].transform[Len(Emitted[1].transform) + 1].expr = "-5 / 16, -6 / 16, 0"
       /\ Len(Emitted[i + 2 + k].transform) = Len(Emitted[1].transform) + 2
       /\ Emitted[i + 2 + k].transform[Len(Emitted[1].transform) + 1].expr
            = "5 / 16, -6 / 16, 0"

\* C19: renderHangingSign always emits the board; a wall hanging sign also
\* gets the plank and the four chain emissions whatever attached is; a
\* hanging sign that is not on a wall never gets the plank and gets the four
\* chain emissions when attached is "false", otherwise exactly one V-shaped
\* chain cuboid, never both.
C19_BoardPlankChains ==
  HangingSignDone =>
    /\ Emitted[1].model = SiteModel("renderHangingSign.modelBoard")
    /\ IF StringIncludes(blockState.blockName, "wall")
       THEN /\ Len(Emitted) = 6
            /\ Emitted[2].model = SiteModel("renderHangingSign.modelPlank")
            /\ FourChains(3)
       ELSE /\ \A i \in 1..Len(Emitted) :
                 Emitted[i].model # SiteModel("renderHangingSign.modelPlank")
            /\ IF GetProperty(blockState.blockProperties, "attached") = "false"
               THEN /\ Len(Emitted) = 5
                    /\ FourChains(2)
                    /\ \A i \in 1..Len(Emitted) :
                         Emitted[i].model # SiteModel("renderHangingSign.modelVChains")
               ELSE /\ Len(Emitted) = 2
                    /\ Emitted[2].model = SiteModel("renderHangingSign.modelVChains")

\* a wall hanging sign whose attached is "true"
C19_Witness ==
  /\ HangingSignDone
  /\ blockState.blockName = "oak_wall_hanging_sign"
  /\ GetProperty(blockState.blockProperties, "attached") = "true"
  /\ Len(Emitted) = 6
  /\ Emitted[2].model = SiteModel("renderHangingSign.modelPlank")

TexturesDone == pc = "texturesDone"

\* the slot's sprite is an animated descriptor
AnimatedSlot(texture) == ~IsArray(atlasMapping[texture])

\* C20: resolveSpecialTextures returns a material list and a rectangle list
\* with one entry per slot of getSpecialBlocksData(blockName), in its order; a
\* static slot gets the static material of the render pass and
\* [x, y, w, h, ATLAS_WIDTH, ATLAS_HEIGHT]; an animated slot gets the animated
\* material and the rectangle putNewTexture placed it at, followed by the
\* animated atlas size twice; putNewTexture is called once per animated slot,
\* in slot order, with the width and height of the first frame, and never for
\* a static slot.
C20_OneEntryPerSlot ==
  TexturesDone =>
    LET ids == getSpecialBlocksData(blockState.blockName)
        materials == result[1]
        sprites == result[2]
        animated == SelectSeq(ids, AnimatedSlot)
    IN  /\ Len(materials) = Len(ids)
        /\ Len(sprites) = Len(ids)
        /\ \A i \in 1..Len(ids) :
             IF IsArray(atlasMapping[ids[i]])
             THEN /\ materials[i] = PickerMaterial("staticTexture", renderType)
                  /\ sprites[i] = atlasMapping[ids[i]].rect \o <<ATLAS_WIDTH, ATLAS_HEIGHT>>
             ELSE /\ materials[i] = PickerMaterial("animatedTexture", renderType)
                  /\ sprites[i] = animatedTextureManager.placed[ids[i]]
                                    \o <<ANIMATED_TEXTURE_ATLAS_SIZE,
                                         ANIMATED_TEXTURE_ATLAS_SIZE>>
        /\ Len(putCalls) = Len(animated)
        /\ \A k \in 1..Len(animated) :
             /\ putCalls[k].texture = animated[k]
             /\ putCalls[k].sprite = atlasMapping[animated[k]]
             /\ putCalls[k].size =
                  << atlasMapping[atlasMapping[animated[k]].frames[1]].rect[3],
                     atlasMapping[atlasMapping[animated[k]].frames[1]].rect[4] >>

\* a chest whose first slot is static and whose second is animated, with a
\* first frame of 8 x 32
C20_Witness ==
  /\ TexturesDone
  /\ resolveCalls = 1
  /\ blockState.blockName = "chest"
  /\ renderType = "cutout"
  /\ IsArray(atlasMapping[getSpecialBlocksData("chest")[1]])
  /\ atlasMapping[getSpecialBlocksData("chest")[2]].frames = <<Frame(2), Frame(1)>>
  /\ putCalls[1].size = <<8, 32>>
  /\ result[2][1] = <<0, 0, 16, 16, ATLAS_WIDTH, ATLAS_HEIGHT>>
  /\ result[2][2] = <<0, 0, 8, 32, ANIMATED_TEXTURE_ATLAS_SIZE, ANIMATED_TEXTURE_ATLAS_SIZE>>

\* the animated slots of a block
AnimatedSlots(blockName) ==
  {getSpecialBlocksData(blockName)[i] : i \in
     {j \in 1..Len(getSpecialBlocksData(blockName)) :
        AnimatedSlot(getSpecialBlocksData(blockName)[j])}}

\* C21: over any sequence of resolveSpecialTextures calls, the rectangle
\* returned for an animated slot is the one the animated texture manager holds
\* for it, which is the one it was given the first time it was requested: a
\* call keeps every rectangle placed before it, adds one for each animated
\* slot requested for the first time and none for a slot requested again.
C21_PlacementIdempotent ==
  [][ ResolveSpecialTextures =>
        LET ids == getSpecialBlocksData(blockState'.blockName)
            before == animatedTextureManager.placed
            after == animatedTextureManager'.placed
        IN  /\ \A i \in 1..Len(ids) :
                 AnimatedSlot(ids[i]) =>
                   /\ ids[i] \in DOMAIN after
                   /\ SubSeq(result'[2][i], 1, 4) = after[ids[i]]
                   /\ ids[i] \in DOMAIN before =>
                        SubSeq(result'[2][i], 1, 4) = before[ids[i]]
            /\ \A t \in DOMAIN before : t \in DOMAIN after /\ after[t] = before[t]
            /\ DOMAIN after = DOMAIN before \cup AnimatedSlots(blockState'.blockName)
            /\ AnimatedSlots(blockState'.blockName) \subseteq DOMAIN before =>
                 animatedTextureManager' = animatedTextureManager ]_vars

\* every slot is animated and the bed was resolved twice: its sprite was
\* requested again (putCalls) and the atlas holds one rectangle
C21_Witness ==
  /\ TexturesDone
  /\ resolveCalls = 2
  /\ \A t \in TextureSlots : AnimatedSlot(t)
  /\ blockState.blockName = "red_bed"
  /\ Len(putCalls) = 1
  /\ DOMAIN animatedTextureManager.placed = AnimatedSlots("red_bed")
  /\ SubSeq(result[2][1], 1, 4) = animatedTextureManager.placed[getSpecialBlocksData("red_bed")[1]]
  /\ animatedTextureManager.cursor = result[2][1][3]

\* the region of a uv rectangle, whichever way it is traversed
Region(uv) ==
  [ u0 |-> IF uv[1] <= uv[3] THEN uv[1] ELSE uv[3],
    u1 |-> IF uv[1] <= uv[3] THEN uv[3] ELSE uv[1],
    v0 |-> IF uv[2] <= uv[4] THEN uv[2] ELSE uv[4],
    v1 |-> IF uv[2] <= uv[4] THEN uv[4] ELSE uv[2] ]

\* two regions share no interior point
DisjointInteriors(a, b) ==
  \/ a.u1 <= b.u0
  \/ b.u1 <= a.u0
  \/ a.v1 <= b.v0
  \/ b.v1 <= a.v0

\* C22: for positive width, height and depth and any texOffset, the uv
\* rectangles of the faces of one cuboid, with mirror false or true, have
\* pairwise disjoint interiors and lie inside
\* [texOffX, texOffX + 2 * (width + depth)] x [texOffY, texOffY + depth + height].
C22_FacesDoNotOverlap ==
  BoxDone /\ Width > 0 /\ Height > 0 /\ Depth > 0 =>
    /\ \A d \in DOMAIN Faces :
         /\ boxArgs.texOff[1] <= Region(Faces[d].uv).u0
         /\ Region(Faces[d].uv).u0 < Region(Faces[d].uv).u1
         /\ Region(Faces[d].uv).u1 <= boxArgs.texOff[1] + 2 * (Width + Depth)
         /\ boxArgs.texOff[2] <= Region(Faces[d].uv).v0
         /\ Region(Faces[d].uv).v0 < Region(Faces[d].uv).v1
         /\ Region(Faces[d].uv).v1 <= boxArgs.texOff[2] + Depth + Height
    /\ \A d \in DOMAIN Faces : \A e \in DOMAIN Faces :
         d # e => DisjointInteriors(Region(Faces[d].uv), Region(Faces[e].uv))

\* all six faces of a mirrored 1 x 2 x 3 cuboid at texOffset [-14, 13]
C22_Witness ==
  /\ BoxDone
  /\ boxArgs.size = <<1, 2, 3>>
  /\ boxArgs.texOff = <<-14, 13>>
  /\ boxArgs.mirror
  /\ DOMAIN Faces = Direction
  /\ Faces[SOUTH].uv = <<-7, 18, -6, 16>>
  /\ Faces[UP].uv = <<-10, 13, -9, 16>>

(***************************************************************************)
(* Properties of the deploy script (SpecDeploy).                           *)
(***************************************************************************)
\* C23: for every target, the edit of MediaWiki:Gadgets-definition is issued
\* only once every bot.save of the target's files has completed, whatever the
\* order in which the file reads and the saves complete; and the file named
\* Gadgets-definition is never written through bot.save.
C23_EditAfterSaves ==
  /\ \A i \in DOMAIN bots :
       bots[i].edit # "notIssued" =>
         \A k \in DOMAIN bots[i].files :
           bots[i].names[k] # "Gadgets-definition" => bots[i].files[k] = "done"
  /\ \A w \in saved : w[2] # "MediaWiki:Gadgets-definition"

====
